---- MODULE Spec2Model ----
(***************************************************************************)
(* bevy_rich_text3d: the glyph atlas (src/src/atlas.rs), the rich text     *)
(* parser (src/src/parse.rs) and the per-frame render pass with scale      *)
(* factor synchronisation (src/src/lib.rs, src/src/render.rs).             *)
(*                                                                         *)
(* Three specifications share the module:                                  *)
(*   SpecAtlas   sequences of TextAtlas::cache / TextAtlas::clear          *)
(*   SpecParse   Text3d::parse run character by character on bounded text  *)
(*   SpecRender  frames: synchronize_scale_factor, user edits, text_render *)
(***************************************************************************)
EXTENDS Integers, Sequences, FiniteSets, TLC

VARIABLES
    \* ---- TextAtlas and its backing Image (atlas.rs 19-25) ----
    imgW,        \* image.width()
    imgH,        \* image.height()
    imgHasData,  \* image.data.is_some()
    imgStored,   \* Assets<Image> holds the atlas image (read by clear)
    imgPx,       \* image.data as a row-major sequence of <<r,g,b,a>> pixels
    glyphs,      \* TextAtlas.glyphs: key -> packed rectangle
    pointer,     \* TextAtlas.pointer, <<x, y>>
    descent,     \* TextAtlas.descent
    atlasPanic,  \* the last call panicked (slice index out of range / unwrap of None)
    ncalls,      \* number of cache/clear calls made so far
    npaints,     \* number of times the paint callback was invoked
    last         \* observation of the last call: op, key, returned rectangle, hit

atlasVars == <<imgW, imgH, imgHasData, imgStored, imgPx, glyphs, pointer,
               descent, atlasPanic, ncalls, npaints, last>>

VARIABLES
    \* ---- Text3d::parse (parse.rs 102-219) ----
    text,        \* the input, a sequence of characters
    raw,         \* TRUE: called through parse_raw (both callbacks fail)
    pos,         \* characters consumed from `iter`
    buffer,      \* the text buffered so far
    state,       \* ParseState: "Text", "Command" or "Image"
    segments,    \* the (segment, style) pairs produced so far
    styles,      \* the style stack
    result,      \* [kind: "Running" | "Ok" | "Err", err]
    \* observations of the run, read by the properties only
    nOpen,       \* style scopes pushed by a `{cmds:`
    nClose,      \* `}` characters handled in Text state
    preOpen,     \* the style in force at the last `{` seen in Text state
    saved,       \* per open scope, the style in force just before its `{`
    chains,      \* per stack entry, the commands of all the scopes around it
    asked,       \* the arguments `stylesheet` was called with, in order
    fetched      \* the arguments `fetch_string` was called with, in order

parseVars == <<text, raw, pos, buffer, state, segments, styles, result,
               nOpen, nClose, preOpen, saved, chains, asked, fetched>>

VARIABLES
    \* ---- the world of synchronize_scale_factor and text_render ----
    phase,        \* the schedule about to run: "First", "Update", "PostUpdate"
    frame,        \* frames completed
    hasWindow,    \* main_window.single() is Ok
    windowScale,  \* window.scale_factor()
    scale_factor, \* Text3dPlugin.scale_factor
    sync_scale_factor_with_main_window,
    atlases,      \* Assets<TextAtlas>, per id
    images,       \* Assets<Image>, per id of the atlas that owns the image
    blocks,       \* the text entities: change ticks, document, mesh, output
    rendererChanged, \* font_system.is_changed() as text_render will see it
    locked,       \* the font-system mutex is held by a running prepare task
    task,         \* the closure returned by prepare_task, and its progress
    queue,        \* TextRendererInner.queue
    \* observations of the run, read by the properties only
    ntasks,       \* prepare tasks created so far
    nclears,      \* scale-factor synchronisations that cleared the atlases
    rescaled,     \* atlases were cleared since text_render last held the lock
    rebuilt,      \* blocks fully rebuilt by the last text_render
    skipped       \* blocks that took the skip path in the last text_render

renderVars == <<phase, frame, hasWindow, windowScale, scale_factor,
                sync_scale_factor_with_main_window, atlases, images, blocks,
                rendererChanged, locked, task, queue,
                ntasks, nclears, rescaled, rebuilt, skipped>>

VARIABLES
    \* ---- the style cascade: SegmentStyle::join and its readers ----
    cascadeBase,   \* the Text3dStyling of the block
    cascadeChain,  \* the overrides joined so far, outermost first
    cascadeStyle   \* the SegmentStyle the joins have produced

cascadeVars == <<cascadeBase, cascadeChain, cascadeStyle>>

VARIABLES
    \* ---- the full rebuild of one block's mesh (render.rs 248-498) ----
    meshStyling,   \* the Text3dStyling of the block
    meshAttrs,     \* the SegmentStyle of the document's segment
    layoutGlyphs,  \* the glyphs of buffer.layout_runs(), in order
    imageData,     \* image.data.is_some()
    entries,       \* the keys of atlas.glyphs
    nextGlyph,     \* position of the glyph loop
    positions, normals, uv0, uv1, colors, indices, idx,
    storedMesh     \* what the rebuild has inserted into the Mesh

meshVars == <<meshStyling, meshAttrs, layoutGlyphs, imageData, entries,
              nextGlyph, positions, normals, uv0, uv1, colors, indices, idx,
              storedMesh>>

\* loading.rs and the run conditions of lib.rs: the hand-over of the font
\* system from the background task to the World.
VARIABLES
    loaderState,     \* position of the task spawned by load_fonts_concurrent
    cellValue,       \* the OnceLock: None or Some(TextRenderer)
    strongCount,     \* strong count of the Arc around the OnceLock
    loadCosmicFonts, \* the LoadCosmicFonts resource exists
    textRenderer,    \* the TextRenderer resource exists
    commandQueue,    \* commands of the systems of First, not yet applied
    inserts,         \* the times a TextRenderer has been inserted
    loadPhase,       \* the schedule about to run
    loadFrame,       \* frames completed
    polls,           \* runs of load_cosmic_fonts_system since the task ended
    renders          \* runs of text_render

loadVars == <<loaderState, cellValue, strongCount, loadCosmicFonts,
              textRenderer, commandQueue, inserts, loadPhase, loadFrame,
              polls, renders>>

\* text3d.rs and fetch.rs: the entities text_3d_on_remove deals with.
VARIABLES
    text3dSegments,  \* the segments of the Text3d of each text entity, or Removed
    alive,           \* the segment entities that exist
    sharedSegments,  \* the segment entities with a SharedTextSegment
    lastRemoved      \* the segments of the Text3d removed last

hookVars == <<text3dSegments, alive, sharedSegments, lastRemoved>>

\* render.rs, the end of the rebuild: the bounding box and the anchor.
\* Lengths are counted in half units, so that the centre of a box and an
\* anchor of one half are whole numbers.
VARIABLES
    anAnchor,     \* styling.anchor, in halves: <<-1, -1>> is (-0.5, -0.5)
    anHeight,     \* height of the layout runs
    anMinX,       \* min_x
    anMaxX,       \* max_x
    anPositions,  \* the x and y of the vertices
    anOffset      \* the translation of the anchor pass, once applied

anchorVars == <<anAnchor, anHeight, anMinX, anMaxX, anPositions, anOffset>>

\* mesh_util.rs: an ExtractedMesh from its quads to its drop.
VARIABLES
    lzLayerOffset,  \* layer_offset
    lzSort,         \* sort: the (layer, six indices) pairs
    lzPositions,    \* positions
    lzIndices,      \* indices
    lzLayers,       \* the layer tag each quad was cached with, in call order
    lzDropped       \* drop has run

layerVars == <<lzLayerOffset, lzSort, lzPositions, lzIndices, lzLayers, lzDropped>>

\* render.rs 303, 370-372: the quad counter of a rebuild and what it emits.
VARIABLES
    ixIdx,      \* idx
    ixIndices,  \* the six values the last `indices.extend` appended
    ixPanic     \* the multiplication overflowed in a build that checks it

indexVars == <<ixIdx, ixIndices, ixPanic>>

vars == <<atlasVars, parseVars, renderVars, cascadeVars, meshVars, loadVars, hookVars, anchorVars, layerVars, indexVars>>

\* No rebuild counting quads, for the specifications that emit none.
IdleIndexVars ==
    /\ ixIdx = 0
    /\ ixIndices = <<>>
    /\ ixPanic = FALSE

\* No ExtractedMesh alive, for the specifications that build none.
IdleLayerVars ==
    /\ lzLayerOffset = 0
    /\ lzSort = <<>>
    /\ lzPositions = <<>>
    /\ lzIndices = <<>>
    /\ lzLayers = <<>>
    /\ lzDropped = FALSE

\* No block being anchored, for the specifications that do not run it.
IdleAnchorVars ==
    /\ anAnchor = <<0, 0>>
    /\ anHeight = 0
    /\ anMinX = 0
    /\ anMaxX = 0
    /\ anPositions = <<>>
    /\ anOffset = <<>>

\* Font loading at rest, for the specifications that do not run it.
IdleLoadVars ==
    /\ loaderState = "none"
    /\ cellValue = <<>>
    /\ strongCount = 0
    /\ loadCosmicFonts = FALSE
    /\ textRenderer = TRUE
    /\ commandQueue = <<>>
    /\ inserts = 1
    /\ loadPhase = "First"
    /\ loadFrame = 0
    /\ polls = 0
    /\ renders = 0

\* No Text3d with segments, for the specifications that remove none.
IdleHookVars ==
    /\ text3dSegments = <<>>
    /\ alive = {}
    /\ sharedSegments = {}
    /\ lastRemoved = <<>>

\* The style cascade at rest, for the specifications that do not run it.
IdleCascadeVars ==
    /\ cascadeBase = <<>>
    /\ cascadeChain = <<>>
    /\ cascadeStyle = <<>>

\* The mesh rebuild at rest, for the specifications that do not run it.
IdleMeshVars ==
    /\ meshStyling = <<>>
    /\ meshAttrs = <<>>
    /\ layoutGlyphs = <<>>
    /\ imageData = TRUE
    /\ entries = {}
    /\ nextGlyph = 1
    /\ positions = <<>>
    /\ normals = <<>>
    /\ uv0 = <<>>
    /\ uv1 = <<>>
    /\ colors = <<>>
    /\ indices = <<>>
    /\ idx = 0
    /\ storedMesh = <<>>

(***************************************************************************)
(* Bounds and fixed scenery of the render model.  An atlas image is        *)
(* measured in glyph rows: every rasterized glyph takes the next free row  *)
(* and the image doubles its rows when the next glyph does not fit, as     *)
(* TextAtlas::cache doubles the height.                                    *)
(***************************************************************************)
MaxFrames == 2
MaxTasks == 1
AtlasRows0 == 2

BlockIds == {"b1", "b2", "b3"}
AtlasIds == {"A0", "A1"}
Scales == {1, 2}

\* text_query.iter_mut() visits the entities in storage order.
QueryOrder == <<"b1", "b2", "b3">>

\* The TextAtlasHandle component of each block.
BlockAtlas == [b \in BlockIds |-> IF b = "b3" THEN "A1" ELSE "A0"]

\* The glyph keys each document shapes to, per revision of the document.
NeedKeys(b, version) ==
    IF b = "b1" THEN (IF version = 0 THEN <<"g1">> ELSE <<"g1", "g2">>)
    ELSE IF b = "b2" THEN (IF version = 0 THEN <<"g2", "g3">> ELSE <<"g3", "g4">>)
    ELSE (IF version = 0 THEN <<"g1">> ELSE <<"g2">>)

\* The blocks a user system rewrites, and the blocks with an Extract segment.
Editable == {"b2"}
Extracting == {"b1"}

\* The glyph keys of the strings a prepare task is given per atlas.
TaskKeys == <<"g4">>

\* The workloads handed to prepare_images / prepare_images_cloned.
Workloads == { <<"A0">>, <<"A1", "A0">> }

\* A Mesh before text_render has written to it.
NoMesh == [built |-> FALSE, quads |-> <<>>, uvDim |-> 0]

\* The render world at rest, for the specifications that do not run it.
IdleRenderVars ==
    /\ phase = "First"
    /\ frame = 0
    /\ hasWindow = FALSE
    /\ windowScale = 1
    /\ scale_factor = 1
    /\ sync_scale_factor_with_main_window = FALSE
    /\ atlases = <<>>
    /\ images = <<>>
    /\ blocks = <<>>
    /\ rendererChanged = FALSE
    /\ locked = FALSE
    /\ task = [state |-> "none", scale |-> 1, work |-> <<>>]
    /\ queue = <<>>
    /\ ntasks = 0
    /\ nclears = 0
    /\ rescaled = FALSE
    /\ rebuilt = {}
    /\ skipped = {}

(***************************************************************************)
(* Bounds of the atlas model.                                              *)
(***************************************************************************)
MaxCalls == 4
AtlasW0 == 4
AtlasH0 == 4
RowW0 == 6

Keys == {"g1", "g2", "g3"}
Widths == {1, 3}
Heights == {1, 2, 9}

(***************************************************************************)
(* atlas.rs                                                                *)
(***************************************************************************)
PADDING == 2

Max(a, b) == IF a >= b THEN a ELSE b

NoRect == [min |-> <<0, 0>>, max |-> <<0, 0>>]

\* TextAtlas::empty_image: every pixel transparent white.
empty_image(width, height) == [i \in 1..(width * height) |-> <<255, 255, 255, 0>>]

\* Mutant of CacheHit: the lookup never finds the key.
CacheHitNever(glyph) == FALSE

\* The early return of cache: the key is already in the glyph map.
CacheHit(glyph) == glyph \in DOMAIN glyphs

\* Row wrap of the shelf packer: the pointer and descent after lines 73-77.
WrapNeeded(width) == pointer[1] + width + PADDING > imgW

WrappedPointer(width, height) ==
    IF WrapNeeded(width)
    THEN <<0, pointer[2] + Max(descent, height) + PADDING>>
    ELSE pointer

WrappedDescent(width) == IF WrapNeeded(width) THEN 0 ELSE descent

\* Growth test of line 87 on the wrapped pointer and the raised descent.
GrowNeeded(py, desc) == py + desc + PADDING >= imgH

\* Mutant of GrownHeight: the image grows by a fixed amount.
GrownHeightFixed(h) == h + PADDING

\* image.resize to twice the height.
GrownHeight(h) == h * 2

\* image.resize keeps the old bytes and zero-fills the new ones; the loop of
\* lines 94-98 then sets R, G, B of every new pixel to 255.
GrownPixels(px, w, h) ==
    [i \in 1..(w * GrownHeight(h)) |->
        IF i <= Len(px) THEN px[i] ELSE <<255, 255, 255, 0>>]

\* The paint callback of cache_glyph (render.rs 550-557): writes the alpha
\* byte of the width x height box whose first pixel is `start`, on rows of
\* `w` pixels.  Pixel indices are 0-based offsets into the image.
PaintedSet(start, w, width, height) ==
    {start + y * w + x : x \in 0..(width - 1), y \in 0..(height - 1)}

PaintPanics(px, start, w, width, height) ==
    \/ start > Len(px)
    \/ \E p \in PaintedSet(start, w, width, height) : p >= Len(px)

Painted(px, start, w, width, height) ==
    [i \in 1..Len(px) |->
        IF (i - 1) \in PaintedSet(start, w, width, height)
        THEN <<px[i][1], px[i][2], px[i][3], 255>>
        ELSE px[i]]

\* The rectangle recorded for a new glyph (lines 106-109).
OutputRect(p, width, height) ==
    [min |-> p, max |-> <<p[1] + width, p[2] + height>>]

\* Mutant of AdvancedPointer: the next glyph starts right behind this one.
AdvancedPointerTight(p, width) == <<p[1] + width, p[2]>>

\* The pointer after the insertion (line 112).
AdvancedPointer(p, width) == <<p[1] + width + PADDING, p[2]>>

\* A call on the atlas leaves the rest of the program alone.
AtlasOnly == UNCHANGED <<parseVars, renderVars, cascadeVars, meshVars, loadVars, hookVars, anchorVars, layerVars, indexVars>>

\* TextAtlas::cache(image, glyph, base, width, height, draw).  The stored
\* draw origin `base` is kept verbatim next to the rectangle and is read by
\* neither cache nor clear; the model records the rectangle.
Cache(glyph, width, height) ==
    /\ AtlasOnly
    /\ ~atlasPanic
    /\ ncalls < MaxCalls
    /\ ncalls' = ncalls + 1
    /\ UNCHANGED <<imgW, imgHasData, imgStored>>
    /\ IF CacheHit(glyph)
       THEN /\ last' = [op |-> "cache", key |-> glyph, ret |-> glyphs[glyph],
                        hit |-> TRUE]
            /\ UNCHANGED <<imgH, imgPx, glyphs, pointer, descent, atlasPanic,
                           npaints>>
       ELSE LET p1 == WrappedPointer(width, height)
                d1 == WrappedDescent(width)
            IN  IF ~imgHasData
                THEN /\ pointer' = p1
                     /\ descent' = d1
                     /\ last' = [op |-> "cache", key |-> glyph, ret |-> NoRect,
                                 hit |-> FALSE]
                     /\ UNCHANGED <<imgH, imgPx, glyphs, atlasPanic, npaints>>
                ELSE LET d2 == Max(d1, height)
                         grow == GrowNeeded(p1[2], d2)
                         h2 == IF grow THEN GrownHeight(imgH) ELSE imgH
                         px2 == IF grow THEN GrownPixels(imgPx, imgW, imgH)
                                ELSE imgPx
                         start == p1[2] * imgW + p1[1]
                     IN  /\ descent' = d2
                         /\ imgH' = h2
                         /\ IF PaintPanics(px2, start, imgW, width, height)
                            THEN /\ atlasPanic' = TRUE
                                 /\ pointer' = p1
                                 /\ imgPx' = px2
                                 /\ npaints' = npaints + 1
                                 /\ last' = [op |-> "cache", key |-> glyph,
                                             ret |-> NoRect, hit |-> FALSE]
                                 /\ UNCHANGED glyphs
                            ELSE /\ imgPx' = Painted(px2, start, imgW, width, height)
                                 /\ npaints' = npaints + 1
                                 /\ glyphs' = [k \in DOMAIN glyphs \cup {glyph} |->
                                                 IF k = glyph
                                                 THEN OutputRect(p1, width, height)
                                                 ELSE glyphs[k]]
                                 /\ pointer' = AdvancedPointer(p1, width)
                                 /\ last' = [op |-> "cache", key |-> glyph,
                                             ret |-> OutputRect(p1, width, height),
                                             hit |-> FALSE]
                                 /\ UNCHANGED atlasPanic

\* Mutant of ClearedPixels: the image is repainted transparent black.
ClearedPixelsBlack(px) == [i \in 1..Len(px) |-> <<0, 0, 0, 0>>]

\* What clear leaves in an image that holds pixel data: transparent white.
ClearedPixels(px) == [i \in 1..Len(px) |-> <<255, 255, 255, 0>>]

\* TextAtlas::clear(images).  The descent field is not assigned.
Clear ==
    /\ AtlasOnly
    /\ ~atlasPanic
    /\ ncalls < MaxCalls
    /\ ncalls' = ncalls + 1
    /\ pointer' = <<0, 0>>
    /\ glyphs' = <<>>
    /\ last' = [op |-> "clear", key |-> "none", ret |-> NoRect, hit |-> FALSE]
    /\ IF imgStored
       THEN IF imgHasData
            THEN /\ imgPx' = ClearedPixels(imgPx)
                 /\ UNCHANGED atlasPanic
            ELSE /\ atlasPanic' = TRUE      \* img.data.as_mut().unwrap()
                 /\ UNCHANGED imgPx
       ELSE UNCHANGED <<imgPx, atlasPanic>>
    /\ UNCHANGED <<imgW, imgH, imgHasData, imgStored, descent, npaints>>

CacheAny == \E g \in Keys, w \in Widths, h \in Heights : Cache(g, w, h)

\* A cache call for a glyph one pixel wider than the image.
CacheWide == \E g \in Keys, h \in Heights : Cache(g, AtlasW0 + 1, h)

\* A cache call for a box no larger than the image the atlas started with:
\* width + PADDING <= initial width, height <= initial height.
CacheFitting ==
    \E g \in Keys, w \in 1..(AtlasW0 - PADDING), h \in 1..AtlasH0 : Cache(g, w, h)

\* TextAtlas::new on an image made by empty_image, or on an image whose
\* pixel data is not resident.
InitAtlas ==
    /\ imgW = AtlasW0
    /\ imgH = AtlasH0
    /\ imgHasData \in BOOLEAN
    /\ imgStored \in BOOLEAN
    /\ imgPx = IF imgHasData THEN empty_image(AtlasW0, AtlasH0) ELSE <<>>
    /\ glyphs = <<>>
    /\ pointer = <<0, 0>>
    /\ descent = 0
    /\ atlasPanic = FALSE
    /\ ncalls = 0
    /\ npaints = 0
    /\ last = [op |-> "new", key |-> "none", ret |-> NoRect, hit |-> FALSE]
    /\ text = <<>>
    /\ raw = TRUE
    /\ pos = 0
    /\ buffer = <<>>
    /\ state = "Text"
    /\ segments = <<>>
    /\ styles = <<>>
    /\ result = [kind |-> "Ok", err |-> "none", arg |-> <<>>]
    /\ nOpen = 0
    /\ nClose = 0
    /\ preOpen = <<>>
    /\ saved = <<>>
    /\ chains = <<>>
    /\ asked = <<>>
    /\ fetched = <<>>
    /\ IdleRenderVars
    /\ IdleCascadeVars
    /\ IdleMeshVars
    /\ IdleLoadVars
    /\ IdleHookVars
    /\ IdleAnchorVars
    /\ IdleLayerVars
    /\ IdleIndexVars

(***************************************************************************)
(* Bounds and inputs of the parser model.  The input text is a             *)
(* concatenation of lexemes: up to MaxPieces lexemes of the style-scope    *)
(* family or of the Markdown family, or up to MaxWidePieces lexemes of the *)
(* wide family, which holds every single reserved character.               *)
(***************************************************************************)
MaxPieces == 5
MaxWidePieces == 3

ScopeLexemes ==
    { <<"{", "r", "e", "d", ":">>, <<"}">>, <<"*">>, <<"*", "*">>, <<"a">> }

MarkdownLexemes == { <<"\\", "*">>, <<"*">>, <<"*", "*", "*">>, <<"a">> }

WideLexemes ==
    { <<"{">>, <<"}">>, <<":">>, <<"*">>, <<"a">>, <<"r", "e", "d">>,
      <<" ">>, <<"\n">>, <<",">>, <<"{", "i", "m", "a", "g", "e", ":">>,
      <<"s", "-", "4">> }

RECURSIVE Concat(_)
Concat(ss) == IF ss = <<>> THEN <<>> ELSE Head(ss) \o Concat(Tail(ss))

TextsOf(lexemes, n) ==
    { Concat(ps) : ps \in UNION { [1..k -> lexemes] : k \in 0..n } }

\* The command family: up to MaxScopes scope headers, dynamic values or
\* stray closing braces, followed by a body.
MaxScopes == 2

ScopeHeaders ==
    { <<"{", "r", "e", "d", ":">>,
      <<"{", "s", "-", "4", ":">>,
      <<"{", "s", "-", "0", ":">>,
      <<"{", "r", "e", "d", ",", "s", "-", "4", ":">>,
      <<"{", "s", "-", "4", ",", " ", "s", "-", "9", " ", ":">>,
      <<"{", "s", "-", "r", "e", "d", ":">>,
      <<"{", "v", "-", "4", ":">>,
      <<"{", "r", "e", "d", ",", " ", "a", " ", ":">>,
      <<"{", "a", ",", "b", ":">>,
      <<"{", " ", "a", " ", "}">>,
      <<"{", "b", "}">>,
      <<"}">> }

ScopeBodies == { <<"a">>, <<"a", "}">>, <<"a", "}", "a">> }

CommandTexts ==
    { Concat(hs) \o b : hs \in UNION { [1..k -> ScopeHeaders] : k \in 0..MaxScopes },
                        b \in ScopeBodies }

Inputs ==
    TextsOf(ScopeLexemes, MaxPieces) \cup TextsOf(MarkdownLexemes, MaxPieces)
        \cup TextsOf(WideLexemes, MaxWidePieces) \cup CommandTexts

(***************************************************************************)
(* styling.rs: SegmentStyle.  An Option is <<>> (None) or <<v>> (Some(v)). *)
(***************************************************************************)
None == <<>>
Some(v) == <<v>>

SegmentStyleDefault ==
    [font |-> None, fill_color |-> None, stroke_color |-> None, fill |-> None,
     stroke |-> None, weight |-> None, style |-> None, underscore |-> None,
     strikethrough |-> None, magic_number |-> None]

\* Option::or
OrElse(a, b) == IF a # None THEN a ELSE b

\* Mutant of join: the fields of `self` win over those of `other`.
joinLeftBiased(self, other) ==
    [f \in DOMAIN self |-> IF self[f] # <<>> THEN self[f] ELSE other[f]]

\* SegmentStyle::join(self, other)
join(self, other) ==
    [font |-> OrElse(other.font, self.font),
     fill_color |-> OrElse(other.fill_color, self.fill_color),
     stroke_color |-> OrElse(other.stroke_color, self.stroke_color),
     fill |-> OrElse(other.fill, self.fill),
     stroke |-> OrElse(other.stroke, self.stroke),
     weight |-> OrElse(other.weight, self.weight),
     underscore |-> OrElse(other.underscore, self.underscore),
     strikethrough |-> OrElse(other.strikethrough, self.strikethrough),
     style |-> OrElse(other.style, self.style),
     magic_number |-> OrElse(other.magic_number, self.magic_number)]

\* cosmic_text Weight::NORMAL and Weight::BOLD as used by Flip.
WeightNORMAL == 400
WeightBOLD == 700

\* Text3dStyling::default(): the fields the style cascade resolves against.
Text3dStylingDefault ==
    [font |-> <<>>, style |-> "Normal", weight |-> WeightNORMAL, fill |-> TRUE,
     stroke |-> None, color |-> "white", stroke_color |-> "white",
     stroke_offset |-> -1, text_shadow |-> None]

\* SegmentStyle::as_attr(self, base): the resolved weight, slant and family.
as_attr(self, base) ==
    [weight |-> IF self.weight # None THEN self.weight[1] ELSE base.weight,
     style |-> IF self.style # None THEN self.style[1] ELSE base.style,
     family |-> IF self.font # None THEN self.font[1] ELSE base.font]

\* Mutant of fill_stroke: the stroke request takes the fill colour.
fill_strokeOneColour(base, attrs) ==
    LET fill == IF attrs.fill # None THEN attrs.fill[1] ELSE base.fill
        stroke == OrElse(attrs.stroke, base.stroke)
        fill_color == IF attrs.fill_color # None THEN attrs.fill_color[1]
                      ELSE base.color
    IN  (IF fill THEN <<[stroke |-> None, color |-> fill_color]>> ELSE <<>>)
        \o (IF stroke # None THEN <<[stroke |-> stroke, color |-> fill_color]>>
            ELSE <<>>)

\* Text3dStyling::fill_draw_requests, lines 66-78: the resolved fill flag,
\* stroke and colours, and the (stroke, colour) pairs drawn per glyph.
fill_stroke(base, attrs) ==
    LET fill == IF attrs.fill # None THEN attrs.fill[1] ELSE base.fill
        stroke == OrElse(attrs.stroke, base.stroke)
        fill_color == IF attrs.fill_color # None THEN attrs.fill_color[1]
                      ELSE base.color
        stroke_color == IF attrs.stroke_color # None THEN attrs.stroke_color[1]
                        ELSE base.stroke_color
    IN  (IF fill THEN <<[stroke |-> None, color |-> fill_color]>> ELSE <<>>)
        \o (IF stroke # None THEN <<[stroke |-> stroke, color |-> stroke_color]>>
            ELSE <<>>)

(***************************************************************************)
(* The style cascade as a state machine: a block's base styling and a      *)
(* chain of overrides joined one after the other.                          *)
(***************************************************************************)
MaxJoins == 3

\* A second base styling, every field differing from the default's.
Text3dStylingOther ==
    [font |-> <<"s","e","r","i","f">>, style |-> "Italic", weight |-> WeightBOLD, fill |-> FALSE,
     stroke |-> Some(2), color |-> "green", stroke_color |-> "gray",
     stroke_offset |-> 1, text_shadow |-> Some("black")]

\* The overrides of the chains: the empty one, one per field and value, and
\* two that set several fields.
StyleOverrides ==
    { SegmentStyleDefault,
      [SegmentStyleDefault EXCEPT !.font = Some(<<"m","o","n","o">>)],
      [SegmentStyleDefault EXCEPT !.fill_color = Some("red")],
      [SegmentStyleDefault EXCEPT !.fill_color = Some("blue")],
      [SegmentStyleDefault EXCEPT !.stroke_color = Some("black")],
      [SegmentStyleDefault EXCEPT !.fill = Some(TRUE)],
      [SegmentStyleDefault EXCEPT !.fill = Some(FALSE)],
      [SegmentStyleDefault EXCEPT !.stroke = Some(4)],
      [SegmentStyleDefault EXCEPT !.stroke = Some(9)],
      [SegmentStyleDefault EXCEPT !.weight = Some(300)],
      [SegmentStyleDefault EXCEPT !.weight = Some(WeightBOLD)],
      [SegmentStyleDefault EXCEPT !.style = Some("Italic")],
      [SegmentStyleDefault EXCEPT !.style = Some("Normal")],
      [SegmentStyleDefault EXCEPT !.fill_color = Some("red"), !.stroke = Some(4)],
      [SegmentStyleDefault EXCEPT !.fill = Some(FALSE), !.stroke = Some(9),
                                  !.stroke_color = Some("black"),
                                  !.weight = Some(300)] }

\* A step of the cascade leaves the rest of the program alone.
CascadeOnly == UNCHANGED <<atlasVars, parseVars, renderVars, meshVars, loadVars, hookVars, anchorVars, layerVars, indexVars>>

\* `style = style.join(other)`
JoinOverride(other) ==
    /\ CascadeOnly
    /\ Len(cascadeChain) < MaxJoins
    /\ cascadeStyle' = join(cascadeStyle, other)
    /\ cascadeChain' = Append(cascadeChain, other)
    /\ UNCHANGED cascadeBase

JoinAnyOverride == \E other \in StyleOverrides : JoinOverride(other)

(***************************************************************************)
(* render.rs: the draw requests of a glyph and the quad emission of the    *)
(* full rebuild of one block.  Depths (z) and stroke_offset are counted in *)
(* units of 0.01, the magnitude of the default stroke_offset.              *)
(***************************************************************************)
MaxGlyphs == 2

\* The glyphs cosmic-text lays out: one whose face parses and has an
\* outline, one whose face data does not parse, one without an outline and
\* one whose font id is not in the database.
GlyphKinds ==
    { [id |-> "g1", face |-> "ok", outline |-> TRUE],
      [id |-> "g2", face |-> "unparsable", outline |-> TRUE],
      [id |-> "g3", face |-> "ok", outline |-> FALSE],
      [id |-> "g4", face |-> "missing", outline |-> TRUE] }

Layouts == UNION { [1..n -> GlyphKinds] : n \in 0..MaxGlyphs }

\* The stylings of the block: fill or not, stroke or not, shadow or not,
\* stroke behind (negative offset), level (zero) or in front (positive).
MeshStylings ==
    { [Text3dStylingDefault EXCEPT !.fill = f, !.stroke = s,
                                   !.text_shadow = sh, !.stroke_offset = o] :
        f \in BOOLEAN, s \in {None, Some(4)}, sh \in {None, Some("black")},
        o \in {-1, 0, 1} }

MeshSegmentStyles ==
    { SegmentStyleDefault, [SegmentStyleDefault EXCEPT !.stroke = Some(9)] }

\* The requests of one of the two macros: the shadow first when the styling
\* has one, then the request in its own colour.  `shadow` tells the two
\* apart (the shadow request carries the shadow's offset, the other ZERO).
RequestsOf(base, kind, stroke, color) ==
    (IF base.text_shadow # None
     THEN <<[request |-> kind, stroke |-> stroke, shadow |-> TRUE,
             color |-> base.text_shadow[1], z |-> 0]>>
     ELSE <<>>)
    \o <<[request |-> kind, stroke |-> stroke, shadow |-> FALSE,
          color |-> color, z |-> 0]>>

\* fill!()
FillRequests(base, attrs) ==
    IF (IF attrs.fill # None THEN attrs.fill[1] ELSE base.fill)
    THEN RequestsOf(base, "Fill", None,
                    IF attrs.fill_color # None THEN attrs.fill_color[1]
                    ELSE base.color)
    ELSE <<>>

\* stroke!()
StrokeRequests(base, attrs) ==
    IF OrElse(attrs.stroke, base.stroke) # None
    THEN RequestsOf(base, "Stroke", OrElse(attrs.stroke, base.stroke),
                    IF attrs.stroke_color # None THEN attrs.stroke_color[1]
                    ELSE base.stroke_color)
    ELSE <<>>

Abs(x) == IF x < 0 THEN -x ELSE x

\* Mutant of LayeredDepths: the depths are given front to back in the
\* order of the requests.
LayeredDepthsForward(reqs, offset) ==
    [k \in 1..Len(reqs) |-> [reqs[k] EXCEPT !.z = (k - 1) * offset]]

\* `for item in requests.iter_mut().rev() { item.z = z; z += offset; }`
LayeredDepths(reqs, offset) ==
    [k \in 1..Len(reqs) |-> [reqs[k] EXCEPT !.z = (Len(reqs) - k) * offset]]

\* Text3dStyling::fill_draw_requests(self, attrs, requests)
fill_draw_requests(base, attrs) ==
    LayeredDepths(IF base.stroke_offset > 0
                  THEN FillRequests(base, attrs) \o StrokeRequests(base, attrs)
                  ELSE StrokeRequests(base, attrs) \o FillRequests(base, attrs),
                  -Abs(base.stroke_offset))

\* The GlyphEntry a draw request looks up and caches.
EntryOf(g, r) == <<g.id, r.stroke>>

\* Mutant of Rasterized: a glyph without an outline is rasterized as well.
RasterizedAlways(g) == g.face = "ok"

\* with_face_data(..).flatten(): the font id is known, Face::parse succeeds
\* and cache_glyph gets past outline_glyph; TextAtlas::cache then returns a
\* rectangle, the empty one when the image holds no pixel data.
Rasterized(g) == g.face = "ok" /\ g.outline

\* `idx as u16 * 4`
U16(n) == n % 65536

\* `let i = idx as u16 * 4;` in a build without overflow checks.
FirstIndex(n) == U16(U16(n) * 4)

\* The body of the draw-request loop for request r of glyph number i: an
\* entry that is neither found nor rasterized is skipped (`continue`).
EmitRequest(st, i, r) ==
    LET g == layoutGlyphs[i]
        found == EntryOf(g, r) \in st.entries
    IN  IF ~found /\ ~Rasterized(g)
        THEN st
        ELSE LET first == FirstIndex(st.idx)
                 rect == IF found \/ imageData THEN "rect" ELSE "empty"
                 vertex == [glyph |-> i, request |-> r.request,
                            stroke |-> r.stroke, shadow |-> r.shadow,
                            z |-> r.z]
             IN  [entries |-> IF ~found /\ imageData
                              THEN st.entries \cup {EntryOf(g, r)}
                              ELSE st.entries,
                  indices |-> st.indices \o
                      <<first, U16(first + 1), U16(first + 2),
                        U16(first + 1), U16(first + 3), U16(first + 2)>>,
                  idx |-> st.idx + 1,
                  positions |-> st.positions \o <<vertex, vertex, vertex, vertex>>,
                  normals |-> st.normals \o <<"+z", "+z", "+z", "+z">>,
                  uv0 |-> st.uv0 \o <<rect, rect, rect, rect>>,
                  uv1 |-> st.uv1 \o <<i, i, i, i>>,
                  colors |-> st.colors \o <<r.color, r.color, r.color, r.color>>]

RECURSIVE EmitRequests(_, _, _)
EmitRequests(st, i, reqs) ==
    IF reqs = <<>> THEN st
    ELSE EmitRequests(EmitRequest(st, i, Head(reqs)), i, Tail(reqs))

\* A step of the rebuild leaves the rest of the program alone.
MeshOnly == UNCHANGED <<atlasVars, parseVars, renderVars, cascadeVars, loadVars, hookVars, anchorVars, layerVars, indexVars>>

\* One turn of `for glyph in run.glyphs.iter()`.
EmitGlyph ==
    /\ MeshOnly
    /\ storedMesh = None
    /\ nextGlyph <= Len(layoutGlyphs)
    /\ LET st == EmitRequests([entries |-> entries, indices |-> indices,
                               idx |-> idx, positions |-> positions,
                               normals |-> normals, uv0 |-> uv0, uv1 |-> uv1,
                               colors |-> colors],
                              nextGlyph,
                              fill_draw_requests(meshStyling, meshAttrs))
       IN  /\ entries' = st.entries
           /\ indices' = st.indices
           /\ idx' = st.idx
           /\ positions' = st.positions
           /\ normals' = st.normals
           /\ uv0' = st.uv0
           /\ uv1' = st.uv1
           /\ colors' = st.colors
    /\ nextGlyph' = nextGlyph + 1
    /\ UNCHANGED <<meshStyling, meshAttrs, layoutGlyphs, imageData, storedMesh>>

\* The placeholder of lines 490-497.
PlaceholderMesh ==
    [positions |-> <<"0", "0", "0">>, normals |-> <<"+y", "+y", "+y">>,
     colors |-> <<"0", "0", "0">>, uv0 |-> <<"0", "0", "0">>,
     uv1 |-> <<"0", "0", "0">>, indices |-> <<0, 1, 2>>]

\* Mutant of InsertedMesh: the buffers are inserted as they are.
InsertedMeshAsIs(p, n, c, t0, t1, ix) ==
    [positions |-> p, normals |-> n, colors |-> c, uv0 |-> t0, uv1 |-> t1,
     indices |-> ix]

\* `if !positions.is_empty() { insert ... } else { placeholder }`
InsertedMesh(p, n, c, t0, t1, ix) ==
    IF p # <<>>
    THEN [positions |-> p, normals |-> n, colors |-> c, uv0 |-> t0,
          uv1 |-> t1, indices |-> ix]
    ELSE PlaceholderMesh

\* The end of the rebuild: the buffers go into the Mesh.
StoreMesh ==
    /\ MeshOnly
    /\ storedMesh = None
    /\ nextGlyph > Len(layoutGlyphs)
    /\ storedMesh' = Some(InsertedMesh(positions, normals, colors, uv0, uv1,
                                       indices))
    /\ UNCHANGED <<meshStyling, meshAttrs, layoutGlyphs, imageData, entries,
                   nextGlyph, positions, normals, uv0, uv1, colors, indices,
                   idx>>

(***************************************************************************)
(* parse.rs                                                                *)
(***************************************************************************)
\* Mutant of FlipWeight: every arm produces Bold.
FlipWeightAlwaysBold(w) == Some(WeightBOLD)

\* impl Flip for Option<Weight>
FlipWeight(w) ==
    IF w # None /\ w[1] <= WeightNORMAL THEN Some(WeightBOLD)
    ELSE IF w = None THEN Some(WeightBOLD)
    ELSE Some(WeightNORMAL)

\* impl Flip for Option<Style>: both arms produce Italic.
FlipStyle(s) ==
    IF s = Some("Normal") \/ s = None THEN Some("Italic")
    ELSE Some("Italic")

\* char::is_whitespace on the characters of the inputs.
IsWhitespace(c) == c \in {" ", "\n", "\t"}

\* str::trim
RECURSIVE TrimStart(_)
TrimStart(s) ==
    IF s # <<>> /\ IsWhitespace(Head(s)) THEN TrimStart(Tail(s)) ELSE s

RECURSIVE TrimEnd(_)
TrimEnd(s) ==
    IF s # <<>> /\ IsWhitespace(s[Len(s)]) THEN TrimEnd(SubSeq(s, 1, Len(s) - 1))
    ELSE s

Trim(s) == TrimEnd(TrimStart(s))

\* str::split(","): the pieces between commas; never an empty list.
RECURSIVE SplitFrom(_, _)
SplitFrom(s, acc) ==
    IF s = <<>> THEN <<acc>>
    ELSE IF Head(s) = "," THEN <<acc>> \o SplitFrom(Tail(s), <<>>)
    ELSE SplitFrom(Tail(s), Append(acc, Head(s)))

Split(s) == SplitFrom(s, <<>>)

StartsWith(s, prefix) ==
    Len(s) >= Len(prefix) /\ SubSeq(s, 1, Len(prefix)) = prefix

\* u32::from_str on decimal digits (an optional leading `+` is accepted).
\* DigitValue is -1 for a character that is no digit.
DigitValue(c) ==
    CASE c = "0" -> 0 [] c = "1" -> 1 [] c = "2" -> 2 [] c = "3" -> 3
      [] c = "4" -> 4 [] c = "5" -> 5 [] c = "6" -> 6 [] c = "7" -> 7
      [] c = "8" -> 8 [] c = "9" -> 9 [] OTHER -> -1

RECURSIVE DigitsValue(_, _)
DigitsValue(s, acc) ==
    IF s = <<>> THEN acc
    ELSE IF DigitValue(Head(s)) < 0 \/ acc < 0 THEN -1
    ELSE DigitsValue(Tail(s), acc * 10 + DigitValue(Head(s)))

\* Strings of up to nine digits, all of which fit a u32; the inputs of the
\* model form no longer ones.
ParseU32(s) ==
    LET d == IF s # <<>> /\ Head(s) = "+" THEN Tail(s) ELSE s
        v == IF d = <<>> \/ Len(d) > 9 THEN -1 ELSE DigitsValue(d, 0)
    IN  IF v >= 0 THEN Some(v) ELSE None

\* f32::from_str on the strings the inputs can form after `v-`: an unsigned
\* or signed run of decimal digits.
ParseF32(s) ==
    LET d == IF s # <<>> /\ Head(s) \in {"+", "-"} THEN Tail(s) ELSE s
        v == IF d = <<>> \/ Len(d) > 9 THEN -1 ELSE DigitsValue(d, 0)
    IN  IF v < 0 THEN None
        ELSE IF s # <<>> /\ Head(s) = "-" THEN Some(0 - v) ELSE Some(v)

\* NonZeroU32::new
NonZeroU32(n) == IF n = 0 THEN None ELSE Some(n)

\* color_table::parse_color: CSS colour names; the names the inputs can form.
parse_color(s) == IF s = <<"r", "e", "d">> THEN Some("red") ELSE None

\* The stylesheet callback: parse_raw's always fails with MissingStyle(s);
\* the custom one knows the style `a` (a light weight) and fails with
\* Custom(s) on every other name.  `asked` tells that the callback ran.
stylesheet(s) ==
    IF ~raw /\ s = <<"a">>
    THEN [ok |-> TRUE, style |-> [SegmentStyleDefault EXCEPT !.weight = Some(300)],
          err |-> "none", arg |-> <<>>, asked |-> TRUE]
    ELSE [ok |-> FALSE, style |-> SegmentStyleDefault,
          err |-> IF raw THEN "MissingStyle" ELSE "Custom", arg |-> s,
          asked |-> TRUE]

\* The fetch_string callback: parse_raw's always fails with BadCommand(s);
\* the custom one resolves `a` to an extracted entity and fails with
\* Custom(s) on every other expression.
fetch_string(s) ==
    IF ~raw /\ s = <<"a">>
    THEN [ok |-> TRUE, seg |-> [kind |-> "Extract", val |-> <<"e1">>],
          err |-> "none", arg |-> <<>>]
    ELSE [ok |-> FALSE, seg |-> [kind |-> "String", val |-> <<>>],
          err |-> IF raw THEN "BadCommand" ELSE "Custom", arg |-> s]

StyleOk(st) ==
    [ok |-> TRUE, style |-> st, err |-> "none", arg |-> <<>>, asked |-> FALSE]

\* Mutant of parse_style: `s-<color>` is not recognized as a built-in.
parse_styleNoStrokeColour(s) ==
    IF StartsWith(s, <<"v", "-">>)
    THEN IF ParseF32(SubSeq(s, 3, Len(s))) # None
         THEN StyleOk([SegmentStyleDefault EXCEPT
                        !.magic_number = ParseF32(SubSeq(s, 3, Len(s)))])
         ELSE stylesheet(s)
    ELSE IF StartsWith(s, <<"s", "-">>)
    THEN IF ParseU32(SubSeq(s, 3, Len(s))) # None
         THEN StyleOk([SegmentStyleDefault EXCEPT
                        !.stroke = NonZeroU32(ParseU32(SubSeq(s, 3, Len(s)))[1])])
         ELSE stylesheet(s)
    ELSE IF parse_color(s) # None
    THEN StyleOk([SegmentStyleDefault EXCEPT !.fill_color = parse_color(s)])
    ELSE stylesheet(s)

\* parse_style(style, stylesheet)
parse_style(s) ==
    IF StartsWith(s, <<"v", "-">>)
    THEN IF ParseF32(SubSeq(s, 3, Len(s))) # None
         THEN StyleOk([SegmentStyleDefault EXCEPT
                        !.magic_number = ParseF32(SubSeq(s, 3, Len(s)))])
         ELSE stylesheet(s)
    ELSE IF StartsWith(s, <<"s", "-">>)
    THEN IF ParseU32(SubSeq(s, 3, Len(s))) # None
         THEN StyleOk([SegmentStyleDefault EXCEPT
                        !.stroke = NonZeroU32(ParseU32(SubSeq(s, 3, Len(s)))[1])])
         ELSE IF parse_color(SubSeq(s, 3, Len(s))) # None
         THEN StyleOk([SegmentStyleDefault EXCEPT
                        !.stroke_color = parse_color(SubSeq(s, 3, Len(s)))])
         ELSE stylesheet(s)
    ELSE IF parse_color(s) # None
    THEN StyleOk([SegmentStyleDefault EXCEPT !.fill_color = parse_color(s)])
    ELSE stylesheet(s)

\* The loop of lines 152-154: join the commands left to right, stopping at
\* the first command that fails.  `asked` lists the arguments the stylesheet
\* callback was called with on the way.
RECURSIVE JoinCommands(_, _)
JoinCommands(style, cmds) ==
    IF cmds = <<>>
    THEN [ok |-> TRUE, style |-> style, err |-> "none", arg |-> <<>>,
          asked |-> <<>>]
    ELSE LET r == parse_style(Trim(Head(cmds)))
             here == IF r.asked THEN <<Trim(Head(cmds))>> ELSE <<>>
         IN  IF r.ok
             THEN [JoinCommands(join(style, r.style), Tail(cmds)) EXCEPT
                      !.asked = here \o @]
             ELSE [r EXCEPT !.asked = here]

\* `s.trim()` of every command of the slice.
TrimAll(cmds) == [i \in 1..Len(cmds) |-> Trim(cmds[i])]

\* push_segment(buffer, spans, styles)
push_segment(buf, spans, st) ==
    IF buf # <<>>
    THEN IF st = <<>>
         THEN [ok |-> FALSE, spans |-> spans]
         ELSE [ok |-> TRUE,
               spans |-> Append(spans, [seg |-> [kind |-> "String", val |-> buf],
                                        style |-> st[Len(st)]])]
    ELSE [ok |-> TRUE, spans |-> spans]

\* Mutant of PopStyle: the stack is not popped.
PopStyleKeep(st) == st

\* Vec::pop, its result discarded: an empty stack stays empty.
PopStyle(st) == IF st = <<>> THEN st ELSE SubSeq(st, 1, Len(st) - 1)

Running == [kind |-> "Running", err |-> "none", arg |-> <<>>]
Ok == [kind |-> "Ok", err |-> "none", arg |-> <<>>]
Err(e) == [kind |-> "Err", err |-> e, arg |-> <<>>]

\* An error value with its payload: BadCommand(String), MissingStyle(String),
\* Custom(String), NotSupported(&str).
ErrArg(e, a) == [kind |-> "Err", err |-> e, arg |-> a]

\* Mutant of Fail: the failing `?` is an unwrap, the call panics.
FailPanics(e) ==
    /\ result' = [kind |-> "Panic", err |-> e, arg |-> <<>>]
    /\ UNCHANGED <<text, raw, buffer, state, segments, styles,
                   nOpen, nClose, preOpen, saved>>

\* `return Err(e)`: the call ends, nothing else is observable.
Fail(e) ==
    /\ result' = Err(e)
    /\ UNCHANGED <<text, raw, buffer, state, segments, styles,
                   nOpen, nClose, preOpen, saved>>

\* `return Err(e(a))`, the error carrying a payload.
FailWith(e, a) ==
    /\ result' = ErrArg(e, a)
    /\ UNCHANGED <<text, raw, buffer, state, segments, styles,
                   nOpen, nClose, preOpen, saved>>

\* A step of parse leaves the rest of the program alone.
ParseOnly == UNCHANGED <<atlasVars, renderVars, cascadeVars, meshVars, loadVars, hookVars, anchorVars, layerVars, indexVars>>

\* The next character of `iter`, when parse is in its loop.
AtChar(c, st) ==
    /\ result.kind = "Running"
    /\ pos < Len(text)
    /\ text[pos + 1] = c
    /\ state = st

Top(st) == IF st = <<>> THEN None ELSE Some(st[Len(st)])

\* ('{', Text)
OpenBrace ==
    /\ ParseOnly
    /\ AtChar("{", "Text")
    /\ pos' = pos + 1
    /\ LET r == push_segment(buffer, segments, styles)
       IN  IF ~r.ok THEN Fail("BracketMismatch")
           ELSE /\ segments' = r.spans
                /\ buffer' = <<>>
                /\ state' = "Command"
                /\ preOpen' = Top(styles)
                /\ UNCHANGED <<text, raw, styles, result, nOpen, nClose, saved>>
    /\ UNCHANGED <<chains, asked, fetched>>

\* (':', Command)
Colon ==
    /\ ParseOnly
    /\ AtChar(":", "Command")
    /\ pos' = pos + 1
    /\ LET cmds == Split(Trim(buffer))
       IN  IF cmds = << <<"i", "m", "a", "g", "e">> >>
           THEN /\ buffer' = <<>>
                /\ state' = "Image"
                /\ UNCHANGED <<text, raw, segments, styles, result,
                               nOpen, nClose, preOpen, saved, chains, asked>>
           ELSE IF styles = <<>>
           THEN Fail("BracketMismatch") /\ UNCHANGED <<chains, asked>>
           ELSE LET r == JoinCommands(styles[Len(styles)], cmds)
                IN  /\ asked' = asked \o r.asked
                    /\ IF ~r.ok
                       THEN FailWith(r.err, r.arg) /\ UNCHANGED chains
                       ELSE /\ styles' = Append(styles, r.style)
                            /\ buffer' = <<>>
                            /\ state' = "Text"
                            /\ nOpen' = nOpen + 1
                            /\ saved' = Append(saved, preOpen)
                            /\ chains' = Append(chains,
                                   chains[Len(chains)] \o TrimAll(cmds))
                            /\ UNCHANGED <<text, raw, segments, result, nClose,
                                           preOpen>>
    /\ UNCHANGED fetched

\* ('}', Text)
CloseText ==
    /\ ParseOnly
    /\ AtChar("}", "Text")
    /\ pos' = pos + 1
    /\ LET r == push_segment(buffer, segments, styles)
       IN  IF ~r.ok THEN Fail("BracketMismatch") /\ UNCHANGED chains
           ELSE /\ segments' = r.spans
                /\ buffer' = <<>>
                /\ styles' = PopStyle(styles)
                /\ nClose' = nClose + 1
                /\ saved' = IF saved = <<>> THEN saved
                            ELSE SubSeq(saved, 1, Len(saved) - 1)
                /\ chains' = IF chains = <<>> THEN chains
                             ELSE SubSeq(chains, 1, Len(chains) - 1)
                /\ UNCHANGED <<text, raw, state, result, nOpen, preOpen>>
    /\ UNCHANGED <<asked, fetched>>

\* ('}', Command)
CloseCommand ==
    /\ ParseOnly
    /\ AtChar("}", "Command")
    /\ pos' = pos + 1
    /\ LET f == fetch_string(Trim(buffer))
       IN  IF ~f.ok THEN FailWith(f.err, f.arg)
           ELSE IF styles = <<>> THEN Fail("BracketMismatch")
           ELSE /\ segments' = Append(segments,
                                      [seg |-> f.seg, style |-> styles[Len(styles)]])
                /\ buffer' = <<>>
                /\ state' = "Text"
                /\ UNCHANGED <<text, raw, styles, result, nOpen, nClose,
                               preOpen, saved>>
    /\ fetched' = Append(fetched, Trim(buffer))
    /\ UNCHANGED <<chains, asked>>

\* ('}', Image)
CloseImage ==
    /\ ParseOnly
    /\ AtChar("}", "Image")
    /\ pos' = pos + 1
    /\ FailWith("NotSupported", <<"i", "m", "a", "g", "e">>)
    /\ UNCHANGED <<chains, asked, fetched>>

\* The number of consecutive `*` starting at 1-based index i.
RECURSIVE RunLength(_, _, _)
RunLength(s, i, cs) ==
    IF i <= Len(s) /\ s[i] \in cs THEN 1 + RunLength(s, i + 1, cs) ELSE 0

\* The match on `stars` of lines 185-194, applied to the top of the stack.
Toggled(style, stars) ==
    IF stars = 1 THEN [style EXCEPT !.style = FlipStyle(@)]
    ELSE IF stars = 2 THEN [style EXCEPT !.weight = FlipWeight(@)]
    ELSE IF stars = 3
    THEN [style EXCEPT !.style = FlipStyle(@), !.weight = FlipWeight(@)]
    ELSE IF stars % 2 = 0 THEN style
    ELSE [style EXCEPT !.style = FlipStyle(@)]

\* ('*', Text)
Stars ==
    /\ ParseOnly
    /\ AtChar("*", "Text")
    /\ LET r == push_segment(buffer, segments, styles)
           stars == RunLength(text, pos + 1, {"*"})
       IN  /\ pos' = pos + stars
           /\ IF ~r.ok THEN Fail("BracketMismatch")
              ELSE IF styles = <<>> /\ (stars <= 3 \/ stars % 2 = 1)
              THEN Fail("BracketMismatch")
              ELSE /\ segments' = r.spans
                   /\ buffer' = <<>>
                   /\ styles' = IF stars > 3 /\ stars % 2 = 0 THEN styles
                                ELSE [styles EXCEPT
                                        ![Len(styles)] = Toggled(@, stars)]
                   /\ UNCHANGED <<text, raw, state, result, nOpen, nClose,
                                  preOpen, saved>>
    /\ UNCHANGED <<chains, asked, fetched>>

\* (c, Command | Image)
BufferPush ==
    /\ ParseOnly
    /\ result.kind = "Running"
    /\ pos < Len(text)
    /\ \/ state = "Command" /\ text[pos + 1] \notin {":", "}"}
       \/ state = "Image" /\ text[pos + 1] # "}"
    /\ pos' = pos + 1
    /\ buffer' = Append(buffer, text[pos + 1])
    /\ UNCHANGED <<text, raw, state, segments, styles, result,
                   nOpen, nClose, preOpen, saved, chains, asked, fetched>>

\* Mutant of Linebreaks: only the first character of the run is counted.
LinebreaksOfFirst(s, i) == IF s[i] = "\n" THEN 1 ELSE 0

\* The newline characters among the run of whitespace starting at index i.
RECURSIVE Linebreaks(_, _)
Linebreaks(s, i) ==
    IF i <= Len(s) /\ IsWhitespace(s[i])
    THEN (IF s[i] = "\n" THEN 1 ELSE 0) + Linebreaks(s, i + 1)
    ELSE 0

Repeat(c, n) == [i \in 1..n |-> c]

\* (c, Text) if c.is_whitespace()
Whitespace ==
    /\ ParseOnly
    /\ result.kind = "Running"
    /\ pos < Len(text)
    /\ state = "Text"
    /\ IsWhitespace(text[pos + 1])
    /\ LET n == RunLength(text, pos + 1, {" ", "\n", "\t"})
           linebreaks == Linebreaks(text, pos + 1)
       IN  /\ pos' = pos + n
           /\ buffer' = IF linebreaks = 0 THEN Append(buffer, " ")
                        ELSE buffer \o Repeat("\n", linebreaks)
    /\ UNCHANGED <<text, raw, state, segments, styles, result,
                   nOpen, nClose, preOpen, saved, chains, asked, fetched>>

\* (c, Text)
TextChar ==
    /\ ParseOnly
    /\ result.kind = "Running"
    /\ pos < Len(text)
    /\ state = "Text"
    /\ text[pos + 1] \notin {"{", "}", "*"}
    /\ ~IsWhitespace(text[pos + 1])
    /\ pos' = pos + 1
    /\ buffer' = Append(buffer, text[pos + 1])
    /\ UNCHANGED <<text, raw, state, segments, styles, result,
                   nOpen, nClose, preOpen, saved, chains, asked, fetched>>

\* End of input: the final push_segment and Ok(Text3d { segments }).
Finish ==
    /\ ParseOnly
    /\ result.kind = "Running"
    /\ pos = Len(text)
    /\ LET r == push_segment(buffer, segments, styles)
       IN  IF ~r.ok
           THEN /\ result' = Err("BracketMismatch")
                /\ UNCHANGED segments
           ELSE /\ result' = Ok
                /\ segments' = r.spans
    /\ UNCHANGED <<text, raw, pos, buffer, state, styles,
                   nOpen, nClose, preOpen, saved, chains, asked, fetched>>

\* The atlas at rest, for the specifications that do not run it.
IdleAtlasVars ==
    /\ imgW = AtlasW0
    /\ imgH = AtlasH0
    /\ imgHasData = TRUE
    /\ imgStored = TRUE
    /\ imgPx = <<>>
    /\ glyphs = <<>>
    /\ pointer = <<0, 0>>
    /\ descent = 0
    /\ atlasPanic = FALSE
    /\ ncalls = 0
    /\ npaints = 0
    /\ last = [op |-> "new", key |-> "none", ret |-> NoRect, hit |-> FALSE]

\* The parser at rest, for the specifications that do not run it.
IdleParseVars ==
    /\ text = <<>>
    /\ raw = TRUE
    /\ pos = 0
    /\ buffer = <<>>
    /\ state = "Text"
    /\ segments = <<>>
    /\ styles = <<SegmentStyleDefault>>
    /\ result = Ok
    /\ nOpen = 0
    /\ nClose = 0
    /\ preOpen = None
    /\ saved = <<>>
    /\ chains = << <<>> >>
    /\ asked = <<>>
    /\ fetched = <<>>

\* Text3d::parse / Text3d::parse_raw entered with some input text.
InitParse ==
    /\ text \in Inputs
    /\ raw \in BOOLEAN
    /\ pos = 0
    /\ buffer = <<>>
    /\ state = "Text"
    /\ segments = <<>>
    /\ styles = <<SegmentStyleDefault>>
    /\ result = Running
    /\ nOpen = 0
    /\ nClose = 0
    /\ preOpen = None
    /\ saved = <<>>
    /\ chains = << <<>> >>
    /\ asked = <<>>
    /\ fetched = <<>>
    /\ IdleAtlasVars
    /\ IdleRenderVars
    /\ IdleCascadeVars
    /\ IdleMeshVars
    /\ IdleLoadVars
    /\ IdleHookVars
    /\ IdleAnchorVars
    /\ IdleLayerVars
    /\ IdleIndexVars

\* The inputs of the totality check: every text of up to MaxTotalPieces
\* pieces, each a character the parser matches on, a letter or `{image:`.
MaxTotalPieces == 3

TotalLexemes ==
    { <<"{">>, <<"}">>, <<":">>, <<"*">>, <<"a">>, <<" ">>,
      <<"{", "i", "m", "a", "g", "e", ":">> }

\* Text3d::parse / Text3d::parse_raw entered with one of these texts.
InitTotal ==
    /\ text \in TextsOf(TotalLexemes, MaxTotalPieces)
    /\ raw \in BOOLEAN
    /\ pos = 0
    /\ buffer = <<>>
    /\ state = "Text"
    /\ segments = <<>>
    /\ styles = <<SegmentStyleDefault>>
    /\ result = Running
    /\ nOpen = 0
    /\ nClose = 0
    /\ preOpen = None
    /\ saved = <<>>
    /\ chains = << <<>> >>
    /\ asked = <<>>
    /\ fetched = <<>>
    /\ IdleAtlasVars
    /\ IdleRenderVars
    /\ IdleCascadeVars
    /\ IdleMeshVars
    /\ IdleLoadVars
    /\ IdleHookVars
    /\ IdleAnchorVars
    /\ IdleLayerVars
    /\ IdleIndexVars

(***************************************************************************)
(* The render world: Text3dPlugin settings, the asset stores, the text     *)
(* entities, the font-system mutex and the prepared-atlas queue            *)
(* (lib.rs, render.rs, prepare.rs).                                        *)
(***************************************************************************)

\* An atlas id with no asset behind it.
AbsentAtlas == [present |-> FALSE, hasImage |-> FALSE, glyphs |-> <<>>,
                used |-> 0, epoch |-> 0]

\* An image id with no asset behind it.
AbsentImage == [present |-> FALSE, rows |-> 0]

\* TextAtlas::new(image) / TextAtlas::default(): hasImage tells whether
\* the image handle is something else than the default id.
NewAtlas(hasImage) == [present |-> TRUE, hasImage |-> hasImage, glyphs |-> <<>>,
                       used |-> 0, epoch |-> 0]

\* TextAtlas::empty_image with the plugin's default_atlas_dimension.
NewImage == [present |-> TRUE, rows |-> AtlasRows0]

\* A text entity as spawned: every component counts as changed.
NewBlock == [changed |-> TRUE, segChanged |-> FALSE, version |-> 0,
             mesh |-> NoMesh, atlas_dimension |-> 0]

\* A step of the render world leaves the rest of the program alone.
RenderOnly == UNCHANGED <<atlasVars, parseVars, cascadeVars, meshVars, loadVars, hookVars, anchorVars, layerVars, indexVars>>

\* cache_glyph at the given scale factor: TextAtlas::cache returns the
\* recorded rectangle of a known key; a new key is rasterized into the next
\* free row, the image doubling when the row does not fit.  An entry is the
\* scale it was rasterized at and the place (row, clear generation) it took.
CacheGlyph(st, key, scale) ==
    IF key \in DOMAIN st.atlas.glyphs
    THEN st
    ELSE [atlas |-> [st.atlas EXCEPT
                        !.glyphs = (key :> [scale |-> scale,
                                            slot |-> st.atlas.used,
                                            epoch |-> st.atlas.epoch]) @@ @,
                        !.used = @ + 1],
          image |-> [st.image EXCEPT
                        !.rows = IF st.atlas.used + 1 > @ THEN @ * 2 ELSE @]]

\* The glyph loop of a block or of a prepare workload.
RECURSIVE CacheGlyphs(_, _, _)
CacheGlyphs(st, keys, scale) ==
    IF keys = <<>> THEN st
    ELSE CacheGlyphs(CacheGlyph(st, Head(keys), scale), Tail(keys), scale)

\* TextAtlas::clear as synchronize_scale_factor applies it to one atlas:
\* the glyph map is emptied and the cursor reset; the image keeps its size.
ClearedAtlas(atlas, generation) ==
    [atlas EXCEPT !.glyphs = <<>>, !.used = 0, !.epoch = generation]

\* synchronize_scale_factor (First schedule).
SynchronizeScaleFactor ==
    /\ RenderOnly
    /\ phase = "First"
    /\ frame < MaxFrames
    /\ phase' = "Update"
    /\ IF /\ sync_scale_factor_with_main_window
          /\ hasWindow
          /\ windowScale # scale_factor
       THEN /\ scale_factor' = windowScale
            /\ atlases' = [a \in AtlasIds |->
                              IF atlases[a].present
                              THEN ClearedAtlas(atlases[a], nclears + 1)
                              ELSE atlases[a]]
            /\ nclears' = nclears + 1
            /\ rescaled' = TRUE
       ELSE UNCHANGED <<scale_factor, atlases, nclears, rescaled>>
    /\ UNCHANGED <<frame, hasWindow, windowScale,
                   sync_scale_factor_with_main_window, images, blocks,
                   rendererChanged, locked, task, queue, ntasks,
                   rebuilt, skipped>>

\* The primary window moves to a display with another scale factor.
WindowScaleChange ==
    /\ RenderOnly
    /\ phase = "Update"
    /\ hasWindow
    /\ \E s \in Scales \ {windowScale} : windowScale' = s
    /\ UNCHANGED <<phase, frame, hasWindow, scale_factor,
                   sync_scale_factor_with_main_window, atlases, images,
                   blocks, rendererChanged, locked, task, queue,
                   ntasks, nclears, rescaled, rebuilt, skipped>>

\* A user system writes the Text3d, TextBounds or Text3dStyling of a block.
EditText(b) ==
    /\ RenderOnly
    /\ phase = "Update"
    /\ blocks' = [blocks EXCEPT ![b].changed = TRUE,
                                ![b].version = 1 - @]
    /\ UNCHANGED <<phase, frame, hasWindow, windowScale, scale_factor,
                   sync_scale_factor_with_main_window, atlases, images,
                   rendererChanged, locked, task, queue,
                   ntasks, nclears, rescaled, rebuilt, skipped>>

EditAnyText == \E b \in Editable : EditText(b)

\* text_fetch_system rewrites a FetchedTextSegment the block extracts.
EditSegment(b) ==
    /\ RenderOnly
    /\ phase = "Update"
    /\ ~blocks[b].segChanged
    /\ blocks' = [blocks EXCEPT ![b].segChanged = TRUE]
    /\ UNCHANGED <<phase, frame, hasWindow, windowScale, scale_factor,
                   sync_scale_factor_with_main_window, atlases, images,
                   rendererChanged, locked, task, queue,
                   ntasks, nclears, rescaled, rebuilt, skipped>>

EditAnySegment == \E b \in Extracting : EditSegment(b)

\* A user system takes the font system through ResMut<TextRenderer>
\* (TextRenderer::lock takes &mut self), e.g. to load a font; the guard is
\* dropped before the system ends.
RendererLock ==
    /\ RenderOnly
    /\ phase = "Update"
    /\ ~locked
    /\ ~rendererChanged
    /\ rendererChanged' = TRUE
    /\ UNCHANGED <<phase, frame, hasWindow, windowScale, scale_factor,
                   sync_scale_factor_with_main_window, atlases, images,
                   blocks, locked, task, queue,
                   ntasks, nclears, rescaled, rebuilt, skipped>>

\* The filter_map of prepare_images_cloned: atlases and images are cloned,
\* ids without an atlas or without an image drop out of the workload.
RECURSIVE ClonedWork(_, _, _)
ClonedWork(ids, atl, img) ==
    IF ids = <<>> THEN <<>>
    ELSE LET id == Head(ids)
             rest == ClonedWork(Tail(ids), atl, img)
         IN  IF atl[id].present /\ atl[id].hasImage /\ img[id].present
             THEN <<[id |-> id, atlas |-> atl[id], image |-> img[id]]>> \o rest
             ELSE rest

\* The filter_map of prepare_images: the atlas is removed first, then its
\* image; an id drops out of the workload when either remove returns None.
RECURSIVE RemovedWork(_, _)
RemovedWork(ids, w) ==
    IF ids = <<>> THEN w
    ELSE LET id == Head(ids)
             atlas == w.atlases[id]
             image == w.images[id]
         IN  IF ~atlas.present
             THEN RemovedWork(Tail(ids), w)
             ELSE IF atlas.hasImage /\ image.present
             THEN RemovedWork(Tail(ids),
                      [atlases |-> [w.atlases EXCEPT ![id] = AbsentAtlas],
                       images |-> [w.images EXCEPT ![id] = AbsentImage],
                       work |-> Append(w.work, [id |-> id, atlas |-> atlas,
                                                image |-> image])])
             ELSE RemovedWork(Tail(ids),
                      [w EXCEPT !.atlases[id] = AbsentAtlas])

\* prepare_task: the closure captures settings.scale_factor and the workload.
NewTask(work) == [state |-> "created", scale |-> scale_factor, work |-> work]

\* prepare_images_cloned called by a user system.
PrepareImagesCloned ==
    /\ RenderOnly
    /\ phase = "Update"
    /\ task.state = "none"
    /\ ntasks < MaxTasks
    /\ \E ids \in Workloads : task' = NewTask(ClonedWork(ids, atlases, images))
    /\ ntasks' = ntasks + 1
    /\ UNCHANGED <<phase, frame, hasWindow, windowScale, scale_factor,
                   sync_scale_factor_with_main_window, atlases, images,
                   blocks, rendererChanged, locked, queue,
                   nclears, rescaled, rebuilt, skipped>>

\* prepare_images called by a user system.
PrepareImages ==
    /\ RenderOnly
    /\ phase = "Update"
    /\ task.state = "none"
    /\ ntasks < MaxTasks
    /\ \E ids \in Workloads :
           LET w == RemovedWork(ids, [atlases |-> atlases, images |-> images,
                                      work |-> <<>>])
           IN  /\ task' = NewTask(w.work)
               /\ atlases' = w.atlases
               /\ images' = w.images
    /\ ntasks' = ntasks + 1
    /\ UNCHANGED <<phase, frame, hasWindow, windowScale, scale_factor,
                   sync_scale_factor_with_main_window,
                   blocks, rendererChanged, locked, queue,
                   nclears, rescaled, rebuilt, skipped>>

\* The spawned closure takes the font-system mutex.  The systems of a frame
\* run one after the other and text_render alone reads the mutex and the
\* queue, so a step of the thread is placed between the systems of Update.
TaskLock ==
    /\ RenderOnly
    /\ phase = "Update"
    /\ task.state = "created"
    /\ ~locked
    /\ locked' = TRUE
    /\ task' = [task EXCEPT !.state = "running"]
    /\ UNCHANGED <<phase, frame, hasWindow, windowScale, scale_factor,
                   sync_scale_factor_with_main_window, atlases, images,
                   blocks, rendererChanged, queue,
                   ntasks, nclears, rescaled, rebuilt, skipped>>

\* The workload loop of the closure: the glyphs of each item are cached at
\* the captured scale factor and the item is pushed to the queue.
RECURSIVE Prepared(_, _)
Prepared(work, scale) ==
    IF work = <<>> THEN <<>>
    ELSE LET item == Head(work)
             st == CacheGlyphs([atlas |-> item.atlas, image |-> item.image],
                               TaskKeys, scale)
         IN  <<[id |-> item.id, atlas |-> st.atlas, image |-> st.image]>>
                 \o Prepared(Tail(work), scale)

\* One turn of the workload loop of the closure, the guard held:
\* `queue.push_back((id, atlas, image))`.
TaskPush ==
    /\ RenderOnly
    /\ phase = "Update"
    /\ task.state = "running"
    /\ task.work # <<>>
    /\ queue' = queue \o Prepared(<<Head(task.work)>>, task.scale)
    /\ task' = [task EXCEPT !.work = Tail(@)]
    /\ UNCHANGED <<phase, frame, hasWindow, windowScale, scale_factor,
                   sync_scale_factor_with_main_window, atlases, images,
                   blocks, rendererChanged, locked,
                   ntasks, nclears, rescaled, rebuilt, skipped>>

\* The closure runs to its end and drops the guard.
TaskFinish ==
    /\ RenderOnly
    /\ phase = "Update"
    /\ task.state = "running"
    /\ task.work = <<>>
    /\ locked' = FALSE
    /\ task' = [state |-> "none", scale |-> 1, work |-> <<>>]
    /\ UNCHANGED <<phase, frame, hasWindow, windowScale, scale_factor,
                   sync_scale_factor_with_main_window, atlases, images,
                   blocks, rendererChanged, queue,
                   ntasks, nclears, rescaled, rebuilt, skipped>>

\* The Update schedule ends.
EndUpdate ==
    /\ RenderOnly
    /\ phase = "Update"
    /\ phase' = "PostUpdate"
    /\ UNCHANGED <<frame, hasWindow, windowScale, scale_factor,
                   sync_scale_factor_with_main_window, atlases, images,
                   blocks, rendererChanged, locked, task, queue,
                   ntasks, nclears, rescaled, rebuilt, skipped>>

\* `for (id, atlas, image) in lock.queue.drain(..)`.
RECURSIVE Drained(_, _)
Drained(q, w) ==
    IF q = <<>> THEN w
    ELSE Drained(Tail(q),
                 [atlases |-> [w.atlases EXCEPT ![Head(q).id] = Head(q).atlas],
                  images |-> [w.images EXCEPT ![Head(q).id] = Head(q).image]])

\* The change-detection test of one block.
Unchanged(blk, redraw) == ~redraw /\ ~blk.changed /\ ~blk.segChanged

\* Mutant of ScaledUV: UV0 is left as it is.
ScaledUVKept(uvDim, old, new) == uvDim

\* `*x *= output.atlas_dimension.x as f32 / new_dimension.x as f32`: UV0 is
\* the pixel coordinate over uvDim, so the product is the pixel coordinate
\* over uvDim * new / old.
ScaledUV(uvDim, old, new) ==
    IF old = 0 THEN uvDim ELSE (uvDim * new) \div old

\* The skip path: UV0 is rescaled when the image dimension moved (the
\* default mesh of a block never rebuilt has an empty UV0).
SkipPath(blk, image) ==
    IF blk.atlas_dimension = image.rows
    THEN blk
    ELSE [blk EXCEPT !.mesh.uvDim = IF blk.mesh.built
                                    THEN ScaledUV(@, blk.atlas_dimension,
                                                  image.rows)
                                    ELSE @,
                     !.atlas_dimension = image.rows]

\* The full rebuild: every quad takes the rectangle its key has in the
\* atlas, UV0 is normalised by the image dimension after all caching.
Rebuilt(blk, st, keys) ==
    [blk EXCEPT !.mesh = [built |-> TRUE,
                          quads |-> [k \in {keys[i] : i \in 1..Len(keys)} |->
                                        st.atlas.glyphs[k]],
                          uvDim |-> st.image.rows],
                !.atlas_dimension = st.image.rows]

\* The body of the text_query loop for one block whose atlas exists.
RenderBlock(w, b, redraw, scale) ==
    LET a == BlockAtlas[b]
        fresh == ~w.atlases[a].hasImage \/ ~w.images[a].present
        atlas == [w.atlases[a] EXCEPT !.hasImage = TRUE]
        image == IF fresh THEN NewImage ELSE w.images[a]
        blk == w.blocks[b]
        keys == NeedKeys(b, blk.version)
        st == CacheGlyphs([atlas |-> atlas, image |-> image], keys, scale)
    IN  IF Unchanged(blk, redraw)
        THEN [w EXCEPT !.atlases[a] = atlas,
                       !.images[a] = image,
                       !.blocks[b] = SkipPath(blk, image),
                       !.skipped = @ \cup {b}]
        ELSE [w EXCEPT !.atlases[a] = st.atlas,
                       !.images[a] = st.image,
                       !.blocks[b] = Rebuilt(blk, st, keys),
                       !.rebuilt = @ \cup {b}]

\* The text_query loop: a block whose atlas is missing ends the system.
RECURSIVE RenderLoop(_, _, _, _)
RenderLoop(w, order, redraw, scale) ==
    IF order = <<>> THEN w
    ELSE IF ~w.atlases[BlockAtlas[Head(order)]].present THEN w
    ELSE RenderLoop(RenderBlock(w, Head(order), redraw, scale),
                    Tail(order), redraw, scale)

\* Once text_render has run, no component is changed relative to its last run.
TicksSeen(blks) ==
    [b \in BlockIds |-> [blks[b] EXCEPT !.changed = FALSE, !.segChanged = FALSE]]

\* Mutant of TryLock: the lock is taken whoever holds it.
TryLockAlways == TRUE

\* `let Ok(mut lock) = font_system.0.try_lock() else { return }`
TryLock == ~locked

\* text_render (PostUpdate schedule).
TextRender ==
    /\ RenderOnly
    /\ phase = "PostUpdate"
    /\ phase' = "First"
    /\ frame' = frame + 1
    /\ rendererChanged' = FALSE
    /\ IF ~TryLock
       THEN /\ blocks' = TicksSeen(blocks)
            /\ rebuilt' = {}
            /\ skipped' = {}
            /\ UNCHANGED <<atlases, images, queue, rescaled>>
       ELSE LET redraw == rendererChanged \/ queue # <<>>
                d == Drained(queue, [atlases |-> atlases, images |-> images])
                w == RenderLoop([atlases |-> d.atlases, images |-> d.images,
                                 blocks |-> blocks,
                                 rebuilt |-> {}, skipped |-> {}],
                                QueryOrder, redraw, scale_factor)
            IN  /\ atlases' = w.atlases
                /\ images' = w.images
                /\ blocks' = TicksSeen(w.blocks)
                /\ rebuilt' = w.rebuilt
                /\ skipped' = w.skipped
                /\ queue' = <<>>
                /\ rescaled' = FALSE
    /\ UNCHANGED <<hasWindow, windowScale, scale_factor,
                   sync_scale_factor_with_main_window, locked, task,
                   ntasks, nclears>>

\* The app after Text3dPlugin::build, with a second atlas added by the user
\* and three text entities spawned.
InitRender ==
    /\ phase = "First"
    /\ frame = 0
    /\ hasWindow \in BOOLEAN
    /\ windowScale \in Scales
    /\ scale_factor = 1
    /\ sync_scale_factor_with_main_window \in BOOLEAN
    /\ atlases = [a \in AtlasIds |-> NewAtlas(a = "A0")]
    /\ images = [a \in AtlasIds |-> IF a = "A0" THEN NewImage ELSE AbsentImage]
    /\ blocks = [b \in BlockIds |-> NewBlock]
    /\ rendererChanged = TRUE
    /\ locked = FALSE
    /\ task = [state |-> "none", scale |-> 1, work |-> <<>>]
    /\ queue = <<>>
    /\ ntasks = 0
    /\ nclears = 0
    /\ rescaled = FALSE
    /\ rebuilt = {}
    /\ skipped = {}
    /\ IdleAtlasVars
    /\ IdleParseVars
    /\ IdleCascadeVars
    /\ IdleMeshVars
    /\ IdleLoadVars
    /\ IdleHookVars
    /\ IdleAnchorVars
    /\ IdleLayerVars
    /\ IdleIndexVars

\* The first pass of text_render over the app of InitRender, no window
\* scale to follow.
FirstPass ==
    RenderLoop([atlases |-> [a \in AtlasIds |-> NewAtlas(a = "A0")],
                images |-> [a \in AtlasIds |->
                               IF a = "A0" THEN NewImage ELSE AbsentImage],
                blocks |-> [b \in BlockIds |-> NewBlock],
                rebuilt |-> {}, skipped |-> {}],
               QueryOrder, TRUE, 1)

\* The app in the Update of its second frame: every block was built by the
\* first pass, and a task made by prepare_images_cloned for the atlas A1
\* has just run to its end, its item waiting in the queue.  frame and
\* ntasks count the passes and the tasks from here on.
InitQueue ==
    /\ phase = "Update"
    /\ frame = 0
    /\ hasWindow = FALSE
    /\ windowScale = 1
    /\ scale_factor = 1
    /\ sync_scale_factor_with_main_window \in BOOLEAN
    /\ atlases = FirstPass.atlases
    /\ images = FirstPass.images
    /\ blocks = TicksSeen(FirstPass.blocks)
    /\ rendererChanged = FALSE
    /\ locked = FALSE
    /\ task = [state |-> "none", scale |-> 1, work |-> <<>>]
    /\ queue = Prepared(ClonedWork(<<"A1">>, FirstPass.atlases,
                                   FirstPass.images), 1)
    /\ ntasks = 0
    /\ nclears = 0
    /\ rescaled = FALSE
    /\ rebuilt = FirstPass.rebuilt
    /\ skipped = FirstPass.skipped
    /\ IdleAtlasVars
    /\ IdleParseVars
    /\ IdleCascadeVars
    /\ IdleMeshVars
    /\ IdleLoadVars
    /\ IdleHookVars
    /\ IdleAnchorVars
    /\ IdleLayerVars
    /\ IdleIndexVars

\* A block with one of the base stylings and the default segment style.
InitCascade ==
    /\ cascadeBase \in {Text3dStylingDefault, Text3dStylingOther}
    /\ cascadeChain = <<>>
    /\ cascadeStyle = SegmentStyleDefault
    /\ IdleAtlasVars
    /\ IdleParseVars
    /\ IdleRenderVars
    /\ IdleMeshVars
    /\ IdleLoadVars
    /\ IdleHookVars
    /\ IdleAnchorVars
    /\ IdleLayerVars
    /\ IdleIndexVars

\* text_render reaches the rebuild of a block: the buffers recycled from
\* the Mesh are empty, the atlas holds no entry or the fill of g1.
InitMesh ==
    /\ meshStyling \in MeshStylings
    /\ meshAttrs \in MeshSegmentStyles
    /\ layoutGlyphs \in Layouts
    /\ imageData \in BOOLEAN
    /\ entries \in { {}, {<<"g1", None>>} }
    /\ nextGlyph = 1
    /\ positions = <<>>
    /\ normals = <<>>
    /\ uv0 = <<>>
    /\ uv1 = <<>>
    /\ colors = <<>>
    /\ indices = <<>>
    /\ idx = 0
    /\ storedMesh = None
    /\ IdleAtlasVars
    /\ IdleParseVars
    /\ IdleRenderVars
    /\ IdleCascadeVars
    /\ IdleLoadVars
    /\ IdleHookVars
    /\ IdleAnchorVars
    /\ IdleLayerVars
    /\ IdleIndexVars

(***************************************************************************)
(* loading.rs: fonts loaded in the background                              *)
(***************************************************************************)
MaxLoadFrames == 4

LoadOnly == UNCHANGED <<atlasVars, parseVars, renderVars, cascadeVars, meshVars, hookVars, anchorVars, layerVars, indexVars>>

\* Text3dPlugin::cleanup: with asynchronous_load the app gets a
\* LoadCosmicFonts whose task has just been spawned (sender and receiver
\* hold the Arc), otherwise the TextRenderer itself.
InitLoad ==
    /\ \/ /\ loaderState = "spawned"
          /\ strongCount = 2
          /\ loadCosmicFonts = TRUE
          /\ textRenderer = FALSE
          /\ inserts = 0
       \/ /\ loaderState = "none"
          /\ strongCount = 0
          /\ loadCosmicFonts = FALSE
          /\ textRenderer = TRUE
          /\ inserts = 1
    /\ cellValue = None
    /\ commandQueue = <<>>
    /\ loadPhase = "First"
    /\ loadFrame = 0
    /\ polls = 0
    /\ renders = 0
    /\ IdleAtlasVars
    /\ IdleParseVars
    /\ IdleRenderVars
    /\ IdleCascadeVars
    /\ IdleMeshVars
    /\ IdleHookVars
    /\ IdleAnchorVars
    /\ IdleLayerVars
    /\ IdleIndexVars

\* The positions of the spawned future while it fills the font database.
LoaderStages == <<"spawned", "system_fonts", "font_paths", "font_dirs", "embedded">>

\* The future loads the next group of fonts.
LoaderLoad ==
    /\ LoadOnly
    /\ \E i \in 1..(Len(LoaderStages) - 1) :
           /\ loaderState = LoaderStages[i]
           /\ loaderState' = LoaderStages[i + 1]
    /\ UNCHANGED <<cellValue, strongCount, loadCosmicFonts, textRenderer,
                   commandQueue, inserts, loadPhase, loadFrame, polls, renders>>

\* The tail of the spawned future: `sender.set(TextRenderer::new(system))`.
LoaderSet ==
    /\ LoadOnly
    /\ loaderState = "embedded"
    /\ cellValue' = IF cellValue = None THEN Some("TextRenderer") ELSE cellValue
    /\ loaderState' = "stored"
    /\ UNCHANGED <<strongCount, loadCosmicFonts, textRenderer, commandQueue,
                   inserts, loadPhase, loadFrame, polls, renders>>

\* The future is complete and its captured `sender` is dropped.
LoaderDrop ==
    /\ LoadOnly
    /\ loaderState = "stored"
    /\ strongCount' = strongCount - 1
    /\ loaderState' = "ended"
    /\ UNCHANGED <<cellValue, loadCosmicFonts, textRenderer, commandQueue,
                   inserts, loadPhase, loadFrame, polls, renders>>

\* Mutant of ArcGetMut: the cell is reached whoever else holds the Arc.
ArcGetMutAlways == TRUE

\* `Arc::get_mut(&mut load.0)` is Some: no other Arc to the cell exists.
ArcGetMut == strongCount = 1

\* load_cosmic_fonts_system, in First when LoadCosmicFonts exists.
LoadCosmicFontsSystem ==
    /\ LoadOnly
    /\ loadPhase = "First"
    /\ loadFrame < MaxLoadFrames
    /\ loadPhase' = "Flush"
    /\ IF loadCosmicFonts
       THEN /\ IF ArcGetMut /\ cellValue # None
               THEN /\ cellValue' = None
                    /\ commandQueue' = <<"insert_resource TextRenderer",
                                         "remove_resource LoadCosmicFonts">>
               ELSE UNCHANGED <<cellValue, commandQueue>>
            /\ polls' = IF loaderState = "ended" THEN polls + 1 ELSE polls
       ELSE UNCHANGED <<cellValue, commandQueue, polls>>
    /\ UNCHANGED <<loaderState, strongCount, loadCosmicFonts, textRenderer,
                   inserts, loadFrame, renders>>

\* The commands queued by the systems of First are applied, in order.
ApplyDeferred ==
    /\ LoadOnly
    /\ loadPhase = "Flush"
    /\ loadPhase' = "PostUpdate"
    /\ commandQueue' = <<>>
    /\ LET queued == {commandQueue[i] : i \in 1..Len(commandQueue)}
       IN  /\ textRenderer' =
                  (textRenderer \/ "insert_resource TextRenderer" \in queued)
           /\ inserts' = IF "insert_resource TextRenderer" \in queued
                         THEN inserts + 1 ELSE inserts
           /\ loadCosmicFonts' =
                  (loadCosmicFonts /\ "remove_resource LoadCosmicFonts" \notin queued)
    /\ UNCHANGED <<loaderState, cellValue, strongCount, loadFrame, polls,
                   renders>>

\* PostUpdate: `render::text_render.run_if(resource_exists::<TextRenderer>)`.
TextRenderIfExists ==
    /\ LoadOnly
    /\ loadPhase = "PostUpdate"
    /\ loadPhase' = "First"
    /\ loadFrame' = loadFrame + 1
    /\ renders' = IF textRenderer THEN renders + 1 ELSE renders
    /\ UNCHANGED <<loaderState, cellValue, strongCount, loadCosmicFonts,
                   textRenderer, commandQueue, inserts, polls>>

(***************************************************************************)
(* text3d.rs: the on_remove hook of Text3d                                 *)
(***************************************************************************)
MaxSegments == 2

TextEntities == {"t1", "t2"}
SegmentEntities == {"e1", "e2"}

\* Text3dSegment::String(_) and Text3dSegment::Extract(entity).
Text3dSegments ==
    {<<"String", "abc">>} \cup {<<"Extract", e>> : e \in SegmentEntities}

SegmentLists == UNION { [1..n -> Text3dSegments] : n \in 0..MaxSegments }

HookOnly == UNCHANGED <<atlasVars, parseVars, renderVars, cascadeVars, meshVars, loadVars, anchorVars, layerVars, indexVars>>

\* Two text entities and the segment entities they may extract from, some
\* of these carrying a SharedTextSegment.
InitHook ==
    /\ text3dSegments \in [TextEntities -> {Some(l) : l \in SegmentLists}]
    /\ alive = SegmentEntities
    /\ sharedSegments \in SUBSET SegmentEntities
    /\ lastRemoved = <<>>
    /\ IdleAtlasVars
    /\ IdleParseVars
    /\ IdleRenderVars
    /\ IdleCascadeVars
    /\ IdleMeshVars
    /\ IdleLoadVars
    /\ IdleAnchorVars
    /\ IdleLayerVars
    /\ IdleIndexVars

\* The filter_map of text_3d_on_remove: the entities of the Extract segments.
to_be_dropped(segs) ==
    { segs[i][2] : i \in { j \in 1..Len(segs) : segs[j][1] = "Extract" } }

\* `for entity in to_be_dropped { commands.entity(entity).try_despawn(); }`
Despawned(entities, dropped) == entities \ dropped

\* The Text3d of entity t is removed (or t despawned): the hook
\* text_3d_on_remove runs and its commands are applied.
RemoveText3d(t) ==
    /\ HookOnly
    /\ text3dSegments[t] # None
    /\ alive' = Despawned(alive, to_be_dropped(text3dSegments[t][1]))
    /\ lastRemoved' = text3dSegments[t][1]
    /\ text3dSegments' = [text3dSegments EXCEPT ![t] = None]
    /\ UNCHANGED sharedSegments

RemoveAnyText3d == \E t \in TextEntities : RemoveText3d(t)

\* A user system despawns a segment entity itself.
DespawnSegment ==
    /\ HookOnly
    /\ \E e \in alive : alive' = alive \ {e}
    /\ UNCHANGED <<text3dSegments, sharedSegments, lastRemoved>>

(***************************************************************************)
(* render.rs: the bounding box of a block and the anchor pass              *)
(***************************************************************************)
MaxQuads == 2

\* f32::MAX, the start of min_x; max_x starts at f32::MIN = -f32::MAX.
F32MAX == 1000

Min(a, b) == IF a <= b THEN a ELSE b

\* TextAnchor::BOTTOM_LEFT .. TextAnchor::TOP_RIGHT, in halves.
TextAnchors == {<<x, y>> : x \in {-1, 0, 1}, y \in {-1, 0, 1}}

AnchorOnly == UNCHANGED <<atlasVars, parseVars, renderVars, cascadeVars, meshVars, loadVars, hookVars, layerVars, indexVars>>

\* The rebuild of a block before its first quad: one or two lines of height
\* 2 each (4 and 8 in half units).
InitAnchor ==
    /\ anAnchor \in TextAnchors
    /\ anHeight \in {4, 8}
    /\ anMinX = F32MAX
    /\ anMaxX = -F32MAX
    /\ anPositions = <<>>
    /\ anOffset = None
    /\ IdleAtlasVars
    /\ IdleParseVars
    /\ IdleRenderVars
    /\ IdleCascadeVars
    /\ IdleMeshVars
    /\ IdleLoadVars
    /\ IdleHookVars
    /\ IdleLayerVars
    /\ IdleIndexVars

\* A quad is placed: min_x and max_x follow local_x0 + dx and
\* local_x1 + dx, the vertices are shifted by the offset of the request.
PlaceQuad ==
    /\ AnchorOnly
    /\ anOffset = None
    /\ Len(anPositions) < 4 * MaxQuads
    /\ \E x0 \in {-4, 0, 2}, wd \in {2, 4}, y0 \in {-4, -2}, shift \in {0, 1} :
           /\ anMinX' = Min(anMinX, x0)
           /\ anMaxX' = Max(anMaxX, x0 + wd)
           /\ anPositions' = anPositions \o
                  << <<x0 + shift, y0 + shift>>, <<x0 + wd + shift, y0 + shift>>,
                     <<x0 + shift, y0 + 2 + shift>>,
                     <<x0 + wd + shift, y0 + 2 + shift>> >>
    /\ UNCHANGED <<anAnchor, anHeight, anOffset>>

\* `let dimension = Vec2::new(max_x - min_x, height)`
Dimension == <<anMaxX - anMinX, anHeight>>

\* `let center = Vec2::new((max_x + min_x) / 2., -height / 2.)`, doubled.
TwiceCenter == <<anMaxX + anMinX, -anHeight>>

\* `let offset = *styling.anchor * dimension - center`: the anchor is in
\* halves, so anchor * dimension doubled is the plain product.
AnchorOffset ==
    <<(anAnchor[1] * Dimension[1] - TwiceCenter[1]) \div 2,
      (anAnchor[2] * Dimension[2] - TwiceCenter[2]) \div 2>>

\* The anchor pass without world_scale: `*x += offset.x; *y += offset.y`.
AnchorPass ==
    /\ AnchorOnly
    /\ anOffset = None
    /\ anPositions # <<>>
    /\ anOffset' = Some(AnchorOffset)
    /\ anPositions' = [i \in 1..Len(anPositions) |->
                          <<anPositions[i][1] + AnchorOffset[1],
                            anPositions[i][2] + AnchorOffset[2]>>]
    /\ UNCHANGED <<anAnchor, anHeight, anMinX, anMaxX>>

(***************************************************************************)
(* mesh_util.rs: the layers of an ExtractedMesh                            *)
(***************************************************************************)
MaxLayerQuads == 3
MaxIndexQuads == 16385
ManyQuads == 16380

\* Layer::None, Underline, Higher, NoShadow and NoShadow | Higher.
LayerTags == {0, 1, 2, 128, 130}

LayerOnly == UNCHANGED <<atlasVars, parseVars, renderVars, cascadeVars, meshVars, loadVars, hookVars, anchorVars, indexVars>>

\* ExtractedMesh::new: empty buffers, layer_offset from the styling.
InitLayer ==
    /\ lzLayerOffset \in {0, 1, 2}
    /\ lzSort = <<>>
    /\ lzPositions = <<>>
    /\ lzIndices = <<>>
    /\ lzLayers = <<>>
    /\ lzDropped = FALSE
    /\ IdleAtlasVars
    /\ IdleParseVars
    /\ IdleRenderVars
    /\ IdleCascadeVars
    /\ IdleMeshVars
    /\ IdleLoadVars
    /\ IdleHookVars
    /\ IdleAnchorVars
    /\ IdleIndexVars

\* corners_z(mesh_rect, 0.): the four corners of quad q, z = 0.
corners_z(q) == [c \in 1..4 |-> [quad |-> q, corner |-> c, z |-> 0]]

\* ExtractedMesh::cache_rectangle2 with the given layer.
cache_rectangle2 ==
    /\ LayerOnly
    /\ ~lzDropped
    /\ Len(lzLayers) < MaxLayerQuads
    /\ \E layer \in LayerTags :
           LET i == U16(Len(lzPositions))
           IN  /\ lzSort' = Append(lzSort,
                                   <<layer, <<i, i + 1, i + 2, i + 1, i + 3, i + 2>>>>)
               /\ lzLayers' = Append(lzLayers, layer)
    /\ lzPositions' = lzPositions \o corners_z(Len(lzLayers) + 1)
    /\ UNCHANGED <<lzLayerOffset, lzIndices, lzDropped>>

\* Insertion of one entry behind the entries whose key is not greater.
RECURSIVE InsertByKey(_, _)
InsertByKey(sorted, e) ==
    IF sorted = <<>> THEN <<e>>
    ELSE IF sorted[Len(sorted)][1] <= e[1] THEN Append(sorted, e)
    ELSE Append(InsertByKey(SubSeq(sorted, 1, Len(sorted) - 1), e),
                sorted[Len(sorted)])

\* Mutant of sort_by_key: the entries stay in call order.
RECURSIVE sort_by_keyNot(_)
sort_by_keyNot(sq) == sq

\* `self.sort.sort_by_key(|x| x.0)`: a stable sort.
RECURSIVE sort_by_key(_)
sort_by_key(sq) ==
    IF sq = <<>> THEN <<>>
    ELSE InsertByKey(sort_by_key(SubSeq(sq, 1, Len(sq) - 1)), sq[Len(sq)])

\* `*z = offset` for the six indices of an entry.
WithZ(verts, entry, z) ==
    [i \in 1..Len(verts) |->
        IF \E j \in 1..6 : entry[j] + 1 = i THEN [verts[i] EXCEPT !.z = z]
        ELSE verts[i]]

\* `for (l, entry) in self.sort.iter().rev()`: k is the entry the loop is
\* at, offset and layer are its two locals.
RECURSIVE Layered(_, _, _, _, _)
Layered(verts, sorted, k, offset, layer) ==
    IF k = 0 THEN verts
    ELSE LET l == sorted[k][1]
             o == IF layer # l THEN offset - lzLayerOffset ELSE offset
         IN  Layered(WithZ(verts, sorted[k][2], o), sorted, k - 1, o, l)

\* `self.sort.drain(..).flat_map(|(_, v)| v)`
RECURSIVE Flattened(_)
Flattened(sorted) ==
    IF sorted = <<>> THEN <<>> ELSE Head(sorted)[2] \o Flattened(Tail(sorted))

\* impl Drop for ExtractedMesh: lzPositions and lzIndices end as the
\* attributes of the mesh, three placeholder vertices when there is no quad.
DropExtractedMesh ==
    /\ LayerOnly
    /\ ~lzDropped
    /\ LET sorted == sort_by_key(lzSort)
       IN  IF lzPositions # <<>>
           THEN /\ lzPositions' =
                       IF lzLayerOffset # 0
                       THEN Layered(lzPositions, sorted, Len(sorted), 0,
                                    sorted[Len(sorted)][1])
                       ELSE lzPositions
                /\ lzIndices' = lzIndices \o Flattened(sorted)
           ELSE /\ lzPositions' = [c \in 1..3 |-> [quad |-> 0, corner |-> 0, z |-> 0]]
                /\ lzIndices' = <<0, 1, 2>>
    /\ lzSort' = <<>>
    /\ lzDropped' = TRUE
    /\ UNCHANGED <<lzLayerOffset, lzLayers>>

(***************************************************************************)
(* Specifications                                                          *)
(***************************************************************************)
NextAtlas == CacheAny \/ Clear

NextAtlasFitting == CacheFitting

\* TextAtlas::new on an image made by empty_image(RowW0, AtlasH0), wide
\* enough for two glyphs in a row.
InitAtlasRows ==
    /\ imgW = RowW0
    /\ imgH = AtlasH0
    /\ imgHasData = TRUE
    /\ imgStored \in BOOLEAN
    /\ imgPx = empty_image(RowW0, AtlasH0)
    /\ glyphs = <<>>
    /\ pointer = <<0, 0>>
    /\ descent = 0
    /\ atlasPanic = FALSE
    /\ ncalls = 0
    /\ npaints = 0
    /\ last = [op |-> "new", key |-> "none", ret |-> NoRect, hit |-> FALSE]
    /\ IdleParseVars
    /\ IdleRenderVars
    /\ IdleCascadeVars
    /\ IdleMeshVars
    /\ IdleLoadVars
    /\ IdleHookVars
    /\ IdleAnchorVars
    /\ IdleLayerVars
    /\ IdleIndexVars

SpecAtlasRows == InitAtlasRows /\ [][NextAtlas]_vars

SpecAtlasFitting == InitAtlas /\ [][NextAtlasFitting]_vars

SpecAtlas == InitAtlas /\ [][NextAtlas]_vars

NextAtlasWide == CacheAny \/ CacheWide \/ Clear

SpecAtlasWide == InitAtlas /\ [][NextAtlasWide]_vars

NextParse ==
    \/ OpenBrace
    \/ Colon
    \/ CloseText
    \/ CloseCommand
    \/ CloseImage
    \/ Stars
    \/ BufferPush
    \/ Whitespace
    \/ TextChar
    \/ Finish

SpecParse == InitParse /\ [][NextParse]_vars

SpecTotal == InitTotal /\ [][NextParse]_vars

NextRender ==
    \/ SynchronizeScaleFactor
    \/ WindowScaleChange
    \/ EditAnyText
    \/ EditAnySegment
    \/ RendererLock
    \/ PrepareImagesCloned
    \/ PrepareImages
    \/ TaskLock
    \/ TaskPush
    \/ TaskFinish
    \/ EndUpdate
    \/ TextRender

SpecRender == InitRender /\ [][NextRender]_vars

\* The frames of an app whose window stays on one display and whose
\* blocks extract no segment: user edits, prepare tasks and text_render.
NextPrepare ==
    \/ SynchronizeScaleFactor
    \/ EditAnyText
    \/ RendererLock
    \/ PrepareImagesCloned
    \/ PrepareImages
    \/ TaskLock
    \/ TaskPush
    \/ TaskFinish
    \/ EndUpdate
    \/ TextRender

SpecPrepare == InitRender /\ [][NextPrepare]_vars

NextLoad ==
    \/ LoaderLoad
    \/ LoaderSet
    \/ LoaderDrop
    \/ LoadCosmicFontsSystem
    \/ ApplyDeferred
    \/ TextRenderIfExists

SpecLoad == InitLoad /\ [][NextLoad]_vars

NextHook == RemoveAnyText3d \/ DespawnSegment

SpecHook == InitHook /\ [][NextHook]_vars

SpecQueue == InitQueue /\ [][NextPrepare]_vars

NextAnchor == PlaceQuad \/ AnchorPass

SpecAnchor == InitAnchor /\ [][NextAnchor]_vars

\* The six indices of the quad counted as n.
QuadIndices(n) ==
    LET i == FirstIndex(n)
    IN  <<i, i + 1, i + 2, i + 1, i + 3, i + 2>>

\* A rebuild at its start (`let mut idx = 0;`), or in a long text, ManyQuads
\* quads emitted.
InitIndex ==
    /\ ixIdx \in {0, ManyQuads}
    /\ ixIndices = IF ixIdx = 0 THEN <<>> ELSE QuadIndices(ixIdx - 1)
    /\ ixPanic = FALSE
    /\ IdleAtlasVars
    /\ IdleParseVars
    /\ IdleRenderVars
    /\ IdleCascadeVars
    /\ IdleMeshVars
    /\ IdleLoadVars
    /\ IdleHookVars
    /\ IdleAnchorVars
    /\ IdleLayerVars

\* Lines 370-372 for one quad.  The product is computed in u16: a build
\* with overflow checks (debug) panics when it passes 65535, a build
\* without them (release) keeps the low 16 bits.
EmitQuadIndices ==
    /\ UNCHANGED <<atlasVars, parseVars, renderVars, cascadeVars, meshVars, loadVars, hookVars, anchorVars, layerVars>>
    /\ ~ixPanic
    /\ ixIdx < MaxIndexQuads
    /\ \E overflow_checks \in BOOLEAN :
           IF overflow_checks /\ U16(ixIdx) * 4 > 65535
           THEN /\ ixPanic' = TRUE
                /\ UNCHANGED <<ixIdx, ixIndices>>
           ELSE /\ ixIndices' = QuadIndices(ixIdx)
                /\ ixIdx' = ixIdx + 1
                /\ UNCHANGED ixPanic

NextIndex == EmitQuadIndices

SpecIndex == InitIndex /\ [][NextIndex]_vars

NextLayer == cache_rectangle2 \/ DropExtractedMesh

SpecLayer == InitLayer /\ [][NextLayer]_vars

NextMesh == EmitGlyph \/ StoreMesh

SpecMesh == InitMesh /\ [][NextMesh]_vars

NextCascade == JoinAnyOverride

SpecCascade == InitCascade /\ [][NextCascade]_vars

(***************************************************************************)
(* Properties of the atlas (SpecAtlas)                                     *)
(***************************************************************************)
\* The step is a call of cache (it is counted and observed as one).
IsCacheCall == ncalls' = ncalls + 1 /\ last'.op = "cache"

\* C1: cache is idempotent per key.  In every atlas state reached by cache
\* and clear calls, a cache call whose key is already in the glyph map
\* returns the rectangle recorded for that key, does not invoke the paint
\* callback, and leaves the pointer, the descent, the glyph map and the
\* image (dimensions and pixels) unchanged.
CacheIdempotent ==
    [][(IsCacheCall /\ last'.key \in DOMAIN glyphs) =>
          /\ last'.ret = glyphs[last'.key]
          /\ npaints' = npaints
          /\ UNCHANGED <<pointer, descent, glyphs, imgW, imgH, imgPx, imgHasData>>
      ]_vars

\* A cache call has just hit an entry of an atlas that holds two glyphs and
\* whose pointer has moved.
WitnessCacheHit ==
    /\ last.op = "cache"
    /\ last.hit
    /\ last.ret = glyphs[last.key]
    /\ Cardinality(DOMAIN glyphs) >= 2
    /\ pointer # <<0, 0>>

\* C2: over cache calls (no clear in between) the image width never
\* changes, the height stays or doubles, and the rectangle recorded for a
\* key stays the same, growth included.
AtlasMonotone ==
    [][IsCacheCall =>
          /\ imgW' = imgW
          /\ imgH' \in {imgH, 2 * imgH}
          /\ \A k \in DOMAIN glyphs :
                k \in DOMAIN glyphs' /\ glyphs'[k] = glyphs[k]
      ]_vars

\* The image has grown and holds a glyph packed into the first rows and one
\* packed into the rows that the growth added.
WitnessGrownAtlas ==
    /\ imgH > AtlasH0
    /\ \E k1, k2 \in DOMAIN glyphs :
          /\ glyphs[k1].min[2] = 0
          /\ glyphs[k2].max[2] > AtlasH0
    /\ ~atlasPanic

\* C19: after TextAtlas.clear has returned, the packing cursor is (0,0),
\* the glyph map is empty and every pixel of the backing image (the image
\* the store holds for the atlas) is RGBA (255,255,255,0).
ClearResets ==
    (last.op = "clear" /\ ~atlasPanic) =>
        /\ pointer = <<0, 0>>
        /\ glyphs = <<>>
        /\ imgStored =>
               /\ Len(imgPx) = imgW * imgH
               /\ \A i \in 1..Len(imgPx) : imgPx[i] = <<255, 255, 255, 0>>

\* clear has just returned on a stored image that had grown and had been
\* painted on.
WitnessClearedGrown ==
    /\ last.op = "clear"
    /\ ~atlasPanic
    /\ imgStored
    /\ imgHasData
    /\ imgH > AtlasH0
    /\ npaints >= 2

\* Pixel i of the image (1-based, rows of imgW pixels) lies in rectangle r.
PixelInRect(i, r) ==
    LET x == (i - 1) % imgW
        y == (i - 1) \div imgW
    IN  /\ r.min[1] <= x /\ x < r.max[1]
        /\ r.min[2] <= y /\ y < r.max[2]

\* C20: in every state of an atlas whose image was made by empty_image and
\* is the one its store holds, after any cache calls, growths and clears,
\* every pixel has R = G = B = 255 and every pixel outside the rectangles of
\* the glyph map, the rows added by growth included, has alpha 0; and a
\* cache call that paints changes alpha bytes only, and only of pixels
\* inside the rectangle it returns.
PixelsStayWhite ==
    /\ []((imgHasData /\ imgStored /\ ~atlasPanic) =>
            /\ Len(imgPx) = imgW * imgH
            /\ \A i \in 1..Len(imgPx) :
                   /\ imgPx[i][1] = 255 /\ imgPx[i][2] = 255 /\ imgPx[i][3] = 255
                   /\ imgPx[i][4] # 0 =>
                          \E g \in DOMAIN glyphs : PixelInRect(i, glyphs[g]))
    /\ [][(imgHasData /\ npaints' = npaints + 1 /\ ~atlasPanic') =>
            \A i \in 1..Len(imgPx') :
               LET before == IF i <= Len(imgPx) THEN imgPx[i]
                             ELSE <<255, 255, 255, 0>>
               IN  /\ imgPx'[i][1] = before[1]
                   /\ imgPx'[i][2] = before[2]
                   /\ imgPx'[i][3] = before[3]
                   /\ ~PixelInRect(i, last'.ret) => imgPx'[i] = before]_vars

(***************************************************************************)
(* Properties of the parser (SpecParse)                                    *)
(***************************************************************************)
Done == result.kind # "Running"

\* The slant and weight a segment style resolves to under the default base
\* styling (slant Normal, weight Normal).
Slant(st) == as_attr(st, Text3dStylingDefault).style
ResolvedWeight(st) == as_attr(st, Text3dStylingDefault).weight

Literal(chars, st) == [seg |-> [kind |-> "String", val |-> chars], style |-> st]

\* t is X s Y s Z for the run s of n asterisks at i and at j, with X, Y and
\* Z non-empty runs of the letter a.
StarShape(t, n, i, j) ==
    /\ i > 1
    /\ j > i + n
    /\ j + n - 1 < Len(t)
    /\ \A k \in 1..Len(t) :
          t[k] = IF k \in i..(i + n - 1) \/ k \in j..(j + n - 1) THEN "*" ELSE "a"

\* C4: parse returns Err whenever the input ends while a `{` is unclosed:
\* in Command state, or inside a style scope opened by `{style:`.
UnclosedBraceIsError ==
    (Done /\ pos = Len(text) /\ (state = "Command" \/ saved # <<>>))
        => result.kind = "Err"

\* C5: parse returns Err(BracketMismatch) whenever `}` was met in text state
\* more often than style scopes were opened, a final stray `}` included.
StrayCloseIsBracketMismatch ==
    (Done /\ nClose > nOpen) => result = Err("BracketMismatch")

\* Every asterisk of t is escaped and every backslash of t escapes one.
EscapedOnly(t) ==
    /\ \E i \in 1..Len(t) : t[i] = "\\"
    /\ \A i \in 1..Len(t) :
          /\ t[i] \in {"\\", "*", "a"}
          /\ t[i] = "*" => (i > 1 /\ t[i - 1] = "\\")
          /\ t[i] = "\\" => (i < Len(t) /\ t[i + 1] = "*")

RECURSIVE Unescaped(_)
Unescaped(t) ==
    IF t = <<>> THEN <<>>
    ELSE IF Head(t) = "\\" THEN Unescaped(Tail(t))
    ELSE <<Head(t)>> \o Unescaped(Tail(t))

\* C6: a backslash makes the following asterisk literal and is not emitted:
\* a text of escaped asterisks and letters parses to exactly one literal
\* segment, the text without its backslashes, with the default style.
EscapePreventsToggle ==
    (Done /\ EscapedOnly(text)) =>
        /\ result.kind = "Ok"
        /\ segments = <<Literal(Unescaped(text), SegmentStyleDefault)>>

\* C7: for the input p*a*b, segment a is italic and segment b has the slant
\* of segment p.
ItalicToggleRestores ==
    \A i, j \in 1..Len(text) :
        (Done /\ StarShape(text, 1, i, j)) =>
            /\ result.kind = "Ok"
            /\ Len(segments) = 3
            /\ Slant(segments[2].style) = "Italic"
            /\ Slant(segments[3].style) = Slant(segments[1].style)

\* C8: with base weight Normal the input x**y**z parses to three literal
\* segments x, y, z whose resolved weights are Normal, Bold, Normal.
BoldToggleRestores ==
    \A i, j \in 1..Len(text) :
        (Done /\ StarShape(text, 2, i, j)) =>
            /\ result.kind = "Ok"
            /\ Len(segments) = 3
            /\ segments[1].seg = [kind |-> "String", val |-> SubSeq(text, 1, i - 1)]
            /\ segments[2].seg = [kind |-> "String", val |-> SubSeq(text, i + 2, j - 1)]
            /\ segments[3].seg = [kind |-> "String", val |-> SubSeq(text, j + 2, Len(text))]
            /\ ResolvedWeight(segments[1].style) = WeightNORMAL
            /\ ResolvedWeight(segments[2].style) = WeightBOLD
            /\ ResolvedWeight(segments[3].style) = WeightNORMAL

\* parse has returned Ok for an input of the shape x**y**z.
WitnessBoldToggle ==
    /\ result.kind = "Ok"
    /\ \E i, j \in 1..Len(text) : StarShape(text, 2, i, j)
    /\ Len(segments) = 3

\* The step consumes a run of asterisks in text state and parse goes on.
IsStarStep ==
    /\ result.kind = "Running"
    /\ state = "Text"
    /\ pos < Len(text)
    /\ text[pos + 1] = "*"
    /\ styles # <<>>
    /\ result'.kind = "Running"

OtherSlant(s) == IF s = "Italic" THEN "Normal" ELSE "Italic"
OtherWeight(w) == IF w > WeightNORMAL THEN WeightNORMAL ELSE WeightBOLD

\* C9: in text state a maximal run of N asterisks is one token: it toggles
\* italic for N = 1, bold for N = 2, both for N = 3, nothing for even
\* N >= 4 and italic alone for odd N >= 5; no asterisk reaches a segment and
\* the buffered text is flushed as its own segment with the style in force
\* before the toggle.
StarRunToggles ==
    [][IsStarStep =>
          LET n == pos' - pos
              before == styles[Len(styles)]
              after == styles'[Len(styles')]
              italic == n \in {1, 3} \/ (n >= 5 /\ n % 2 = 1)
              bold == n \in {2, 3}
          IN  /\ n >= 1
              /\ \A k \in (pos + 1)..(pos + n) : text[k] = "*"
              /\ pos' < Len(text) => text[pos' + 1] # "*"
              /\ Len(styles') = Len(styles)
              /\ Slant(after) = IF italic THEN OtherSlant(Slant(before))
                                ELSE Slant(before)
              /\ ResolvedWeight(after) =
                     IF bold THEN OtherWeight(ResolvedWeight(before))
                     ELSE ResolvedWeight(before)
              /\ buffer' = <<>>
              /\ segments' = IF buffer = <<>> THEN segments
                             ELSE Append(segments, Literal(buffer, before))
      ]_vars

\* The step handles a `}` in text state that closes an open style scope.
IsMatchedClose == nClose' = nClose + 1 /\ saved # <<>>

\* After a matched `}` the style in force is the one that was in force just
\* before the scope's `{`.
CloseRestores == IsMatchedClose => Top(styles') = saved[Len(saved)]

CommandFields == {"font", "fill_color", "stroke_color", "fill", "stroke",
                  "underscore", "strikethrough", "magic_number"}

\* The value of field f under a chain of commands: that of the last command
\* of the chain that sets f, unset when none does.
RECURSIVE LastSetting(_, _)
LastSetting(chain, f) ==
    IF chain = <<>> THEN None
    ELSE LET st == parse_style(chain[Len(chain)]).style
         IN  IF st[f] # None THEN st[f]
             ELSE LastSetting(SubSeq(chain, 1, Len(chain) - 1), f)

\* C11: style commands chain and nest.  Every style on the stack carries,
\* field by field, the value of the last command that sets the field among
\* the commands of all the scopes around it, in the order written: the
\* commands of one `{c1, c2:` are joined left to right, a later command
\* wins on the same field, the fields of the enclosing scopes are inherited,
\* and `{c1:{c2:` gives the same style as `{c1, c2:`.
ChainsJoin ==
    result.kind # "Err" =>
        /\ Len(chains) = Len(styles)
        /\ \A i \in 1..Len(styles) : \A f \in CommandFields :
               styles[i][f] = LastSetting(chains[i], f)

\* parse has returned Ok for `{red:{s-4:a}`: the literal of the inner scope
\* carries the fill colour of the outer scope and the stroke of the inner.
WitnessNestedChain ==
    /\ result.kind = "Ok"
    /\ nOpen = 2
    /\ chains # <<>>
    /\ chains[Len(chains)] = << <<"r", "e", "d">>, <<"s", "-", "4">> >>
    /\ \E k \in 1..Len(segments) :
           /\ segments[k].style.fill_color = Some("red")
           /\ segments[k].style.stroke = Some(4)

\* The tokens the grammar recognizes by itself: a colour, `s-<uint>`,
\* `s-<color>` and `v-<float>`.
BuiltIn(t) ==
    \/ parse_color(t) # None
    \/ /\ StartsWith(t, <<"s", "-">>)
       /\ \/ ParseU32(SubSeq(t, 3, Len(t))) # None
          \/ parse_color(SubSeq(t, 3, Len(t))) # None
    \/ /\ StartsWith(t, <<"v", "-">>)
       /\ ParseF32(SubSeq(t, 3, Len(t))) # None

\* The tokens of ts that are not built in, in order.
OtherTokens(ts) == SelectSeq(ts, LAMBDA t : ~BuiltIn(t))

\* s is the beginning of t.
IsPrefix(s, t) == Len(s) <= Len(t) /\ s = SubSeq(t, 1, Len(s))

StrokeCommandSetsWidth ==
    [][(AtChar(":", "Command") /\ styles # <<>>
          /\ Len(Split(Trim(buffer))) = 1) =>
        LET t == Trim(buffer)
            rest == SubSeq(t, 3, Len(t))
            top == styles[Len(styles)]
        IN  /\ (StartsWith(t, <<"s", "-">>) /\ ParseU32(rest) # None) =>
                   styles' = Append(styles, [top EXCEPT !.stroke = ParseU32(rest)])
            /\ (StartsWith(t, <<"s", "-">>) /\ ParseU32(rest) = None
                   /\ parse_color(rest) # None) =>
                   styles' = Append(styles,
                                    [top EXCEPT !.stroke_color = parse_color(rest)])
            /\ (StartsWith(t, <<"v", "-">>) /\ ParseF32(rest) # None) =>
                   styles' = Append(styles,
                                    [top EXCEPT !.magic_number = ParseF32(rest)])]_vars

\* C15: a bare `{expr}` is delegated to fetch_dynamic with expr trimmed of
\* surrounding whitespace.  On success exactly one segment holding the
\* returned value is appended, carrying the style on top of the stack, and
\* parsing continues in text state; on failure parse returns that error,
\* which with parse_raw is Err(BadCommand(expr)).
BareCommandDelegates ==
    [][AtChar("}", "Command") =>
        LET expr == Trim(buffer)
            f == fetch_string(expr)
        IN  /\ fetched' = Append(fetched, expr)
            /\ f.ok =>
                   /\ styles # <<>>
                   /\ segments' = Append(segments,
                                         [seg |-> f.seg,
                                          style |-> styles[Len(styles)]])
                   /\ state' = "Text"
                   /\ result'.kind = "Running"
            /\ ~f.ok => result' = ErrArg(f.err, f.arg)
            /\ raw => result' = ErrArg("BadCommand", expr)]_vars

\* C16: whenever `image` is the sole command before `:`, parse returns
\* Err(NotSupported): once the parser has read `{image:` the parse does not
\* end in anything else, and never in Ok with the image content as text.
ImageIsNotSupported ==
    (state = "Image" /\ result.kind # "Running") =>
        result = ErrArg("NotSupported", <<"i", "m", "a", "g", "e">>)

\* The variants of ParseError.
ParseErrors == {"BracketMismatch", "BadCommand", "MissingStyle", "NotSupported",
                "Custom"}

\* C17: parse is total.  For every input and either behaviour of the two
\* callbacks, in every parser state and with the style stack empty or not:
\* while parse runs, a handler takes the characters that follow the ones
\* already consumed (at least one, never past the end) or, at the end of
\* the input, the call returns; once it has returned nothing more happens;
\* and what it returns is Ok or one of the five errors.
ParseIsTotal ==
    /\ [](/\ result.kind \in {"Running", "Ok", "Err"}
          /\ result.kind = "Err" <=> result.err \in ParseErrors
          /\ state \in {"Text", "Command", "Image"}
          /\ pos \in 0..Len(text)
          /\ result.kind = "Running" <=> ENABLED NextParse)
    /\ [][/\ result.kind = "Running"
           /\ \/ pos < pos' /\ pos' <= Len(text)
              \/ pos = Len(text) /\ pos' = pos /\ result'.kind = "Ok"
              \/ pos = Len(text) /\ pos' = pos
                   /\ result' = Err("BracketMismatch")]_vars

\* parse has returned BracketMismatch at the `:` of a command met in Command
\* state with the style stack empty.
WitnessEmptyStackCommand ==
    /\ result = Err("BracketMismatch")
    /\ state = "Command"
    /\ styles = <<>>
    /\ pos > 0
    /\ text[pos] = ":"

\* C18: in literal text every maximal run of consecutive whitespace is
\* replaced by a single space when it contains no newline and by exactly k
\* newlines, and nothing else, when it contains k >= 1 newlines: the step
\* taken at a whitespace character in text state starts at the beginning of
\* a maximal run, consumes the run to its end and appends that replacement
\* to the literal being collected.
WhitespaceCollapses ==
    [][(result.kind = "Running" /\ state = "Text" /\ pos < Len(text)
          /\ IsWhitespace(text[pos + 1])) =>
        LET k == Cardinality({i \in (pos + 1)..pos' : text[i] = "\n"})
        IN  /\ pos = 0 \/ ~IsWhitespace(text[pos])
            /\ pos' > pos /\ pos' <= Len(text)
            /\ \A i \in (pos + 1)..pos' : IsWhitespace(text[i])
            /\ pos' = Len(text) \/ ~IsWhitespace(text[pos' + 1])
            /\ buffer' = buffer \o (IF k = 0 THEN <<" ">>
                                    ELSE [i \in 1..k |-> "\n"])
            /\ UNCHANGED <<segments, styles, state, result>>]_vars

\* parse has returned Ok for the text newline, space, newline: one literal
\* of two newlines.
WitnessTwoNewlines ==
    /\ result.kind = "Ok"
    /\ text = <<"\n", " ", "\n">>
    /\ segments = <<Literal(<<"\n", "\n">>, SegmentStyleDefault)>>

(***************************************************************************)
(* Properties of the style cascade (SpecCascade)                           *)
(***************************************************************************)

\* The value the chain gives field f: that of the innermost (last) override
\* that sets it, the given default when none does.
RECURSIVE Innermost(_, _, _)
Innermost(chain, f, default) ==
    IF chain = <<>> THEN default
    ELSE IF chain[Len(chain)][f] # None THEN chain[Len(chain)][f][1]
    ELSE Innermost(SubSeq(chain, 1, Len(chain) - 1), f, default)

\* C12: join is field-wise and right-biased and the cascade resolves
\* against the base: for a base styling B and overrides O1..On joined in
\* order, every field of the joined style is that of the innermost Oi that
\* sets it (unset when none does), and the resolved fill flag, fill colour,
\* stroke width, stroke colour, weight, slant and font are the innermost
\* Oi's value, B's value when no Oi sets the field.
CascadeResolves ==
    LET B == cascadeBase
        C == cascadeChain
        attr == as_attr(cascadeStyle, B)
        fill == Innermost(C, "fill", B.fill)
        stroke == Innermost(C, "stroke", IF B.stroke = None THEN 0 ELSE B.stroke[1])
        drawn == fill_stroke(B, cascadeStyle)
    IN  /\ \A f \in DOMAIN SegmentStyleDefault :
               cascadeStyle[f] = (IF \E i \in 1..Len(C) : C[i][f] # None
                                  THEN Some(Innermost(C, f, 0)) ELSE None)
        /\ attr.weight = Innermost(C, "weight", B.weight)
        /\ attr.style = Innermost(C, "style", B.style)
        /\ attr.family = Innermost(C, "font", B.font)
        /\ drawn =
             (IF fill
              THEN <<[stroke |-> None,
                      color |-> Innermost(C, "fill_color", B.color)]>>
              ELSE <<>>)
             \o (IF stroke # 0
                 THEN <<[stroke |-> Some(stroke),
                         color |-> Innermost(C, "stroke_color", B.stroke_color)]>>
                 ELSE <<>>)

\* A chain of three overrides in which the stroke is set twice, the fill
\* colour once and the weight never, over the non-default base.
WitnessCascade ==
    /\ cascadeBase = Text3dStylingOther
    /\ Len(cascadeChain) = 3
    /\ cascadeChain[1].stroke = Some(4)
    /\ cascadeChain[1].fill_color = Some("red")
    /\ cascadeChain[2].stroke = Some(9)
    /\ cascadeChain[3].fill = Some(TRUE)
    /\ \A i \in 1..3 : cascadeChain[i].weight = None
    /\ cascadeStyle.stroke = Some(9)
    /\ cascadeStyle.fill_color = Some("red")

(***************************************************************************)
(* Properties of the render world (SpecRender)                             *)
(***************************************************************************)

\* text_render runs in this step and takes the font-system lock.
IsLockedPass == phase = "PostUpdate" /\ phase' = "First" /\ ~locked

\* The mesh of block b has a quad whose rectangle is not the one its key
\* has in the block's atlas: the entry was cleared, or cleared and packed
\* again.
Stale(b) ==
    LET m == blocks[b].mesh
        a == atlases[BlockAtlas[b]]
    IN  /\ m.built
        /\ \E k \in DOMAIN m.quads :
               \/ ~a.present
               \/ k \notin DOMAIN a.glyphs
               \/ a.glyphs[k] # m.quads[k]

\* C3: when the window's scale factor changed with synchronisation enabled
\* and the atlases were cleared, the next render pass that acquires the lock
\* fully rebuilds every text block whose atlas exists: no block takes the
\* change-detection skip path and no block keeps a mesh that references
\* cleared atlas entries.
RescaleRedrawsAll ==
    [][ (IsLockedPass /\ rescaled
            /\ \A b \in BlockIds : atlases'[BlockAtlas[b]].present)
        => \A b \in BlockIds :
               /\ b \in rebuilt'
               /\ b \notin skipped'
               /\ ~Stale(b)' ]_vars


(***************************************************************************)
(* The mesh of a full rebuild                                              *)
(***************************************************************************)
\* The quad of number a (1..idx): its four vertices are positions
\* 4a-3..4a and its six indices are indices 6a-5..6a, so the order of the
\* quads is the order in the index buffer.
QuadAt(a) == positions[4 * a - 3]

Quads == 1..(Len(positions) \div 4)

\* C21: after a full rebuild the stored mesh is never empty: with k >= 1
\* quads emitted the position, normal, UV0, UV1 and colour arrays have 4k
\* elements each and the index array 6k; with none emitted the mesh is the
\* placeholder of exactly 3 vertices with the indices 0, 1, 2.
MeshArraysConsistent ==
    storedMesh # None =>
        LET m == storedMesh[1]
        IN  IF idx > 0
            THEN /\ Len(m.positions) = 4 * idx
                 /\ Len(m.normals) = 4 * idx
                 /\ Len(m.uv0) = 4 * idx
                 /\ Len(m.uv1) = 4 * idx
                 /\ Len(m.colors) = 4 * idx
                 /\ Len(m.indices) = 6 * idx
            ELSE /\ Len(m.positions) = 3
                 /\ Len(m.normals) = 3
                 /\ Len(m.uv0) = 3
                 /\ Len(m.uv1) = 3
                 /\ Len(m.colors) = 3
                 /\ m.indices = <<0, 1, 2>>

\* A rebuild that skipped one glyph and emitted the quads of another.
WitnessMeshWithSkippedGlyph ==
    /\ storedMesh # None
    /\ idx >= 2
    /\ \E i \in 1..Len(layoutGlyphs) : layoutGlyphs[i].face = "unparsable"

\* A rebuild that emitted nothing and stored the placeholder.
WitnessPlaceholderMesh ==
    /\ storedMesh # None
    /\ idx = 0
    /\ layoutGlyphs # <<>>

\* C22: for a glyph drawn with both fill and stroke and a nonzero
\* stroke_offset, the one in front (the stroke when stroke_offset is
\* positive, the fill otherwise) comes later in the index buffer and has the
\* strictly greater z, within the shadow quads and within the others.
FrontLayerLastAndNearer ==
    \A a, b \in Quads :
        (/\ meshStyling.stroke_offset # 0
         /\ QuadAt(a).glyph = QuadAt(b).glyph
         /\ QuadAt(a).shadow = QuadAt(b).shadow
         /\ QuadAt(a).request # QuadAt(b).request
         /\ QuadAt(b).request = (IF meshStyling.stroke_offset > 0
                                 THEN "Stroke" ELSE "Fill"))
        => (a < b /\ QuadAt(a).z < QuadAt(b).z)

\* A glyph with a fill and a stroke quad, the stroke in front.
WitnessStrokeInFront ==
    /\ meshStyling.stroke_offset > 0
    /\ \E a, b \in Quads :
        /\ QuadAt(a).glyph = QuadAt(b).glyph
        /\ QuadAt(a).shadow = QuadAt(b).shadow
        /\ QuadAt(a).request = "Fill"
        /\ QuadAt(b).request = "Stroke"

\* C23: with a text shadow configured, every shadow quad of a glyph has a z
\* strictly smaller than every quad of that glyph that is not a shadow,
\* fill and stroke alike.
ShadowBehindGlyph ==
    \A a, b \in Quads :
        (/\ meshStyling.text_shadow # None
         /\ QuadAt(a).glyph = QuadAt(b).glyph
         /\ QuadAt(a).shadow
         /\ ~QuadAt(b).shadow)
        => QuadAt(a).z < QuadAt(b).z

\* The requests of glyph number i, as the loop received them.
RequestsAt(i) == fill_draw_requests(meshStyling, meshAttrs)

\* Request r of glyph number i fails to rasterize: it is not in the atlas,
\* and the face does not parse, or there is no outline, or the image the
\* cache writes to has no pixel data.
RasterizationFails(i, r) ==
    /\ EntryOf(layoutGlyphs[i], r) \notin entries
    /\ \/ layoutGlyphs[i].face # "ok"
       \/ ~layoutGlyphs[i].outline
       \/ ~imageData

QuadOf(i, r) ==
    { a \in Quads : /\ QuadAt(a).glyph = i
                    /\ QuadAt(a).request = r.request
                    /\ QuadAt(a).shadow = r.shadow }

\* C24: a draw request whose rasterization fails (face not parsed, no
\* outline, or an image without pixel data) yields no quad, and every
\* other draw request of the glyphs handled so far has its quad.
FailedRequestsSkipped ==
    \A i \in 1..(nextGlyph - 1) :
        \A k \in 1..Len(RequestsAt(i)) :
            LET r == RequestsAt(i)[k]
            IN  (QuadOf(i, r) = {}) <=> RasterizationFails(i, r)

(***************************************************************************)
(* text_render and the font-system lock                                    *)
(***************************************************************************)
\* What text_render writes for the blocks: their meshes and the atlas
\* dimension recorded for each.
Outputs(blks) ==
    [b \in BlockIds |-> <<blks[b].mesh, blks[b].atlas_dimension>>]

\* A pass of text_render that found the lock held.
LockHeldPass == phase = "PostUpdate" /\ locked

\* A pass of text_render that took the lock.
FreePass == phase = "PostUpdate" /\ ~locked

\* C25: a pass of text_render that finds the font-system lock held still
\* completes, leaving every mesh, atlas, image and recorded dimension and
\* the queue as they were; a pass that finds the lock free drains the queue
\* and, when every block has its atlas, goes through every block.
LockedPassReturns ==
    [][ /\ LockHeldPass =>
            /\ phase' = "First"
            /\ atlases' = atlases
            /\ images' = images
            /\ queue' = queue
            /\ Outputs(blocks') = Outputs(blocks)
            /\ rebuilt' = {}
            /\ skipped' = {}
        /\ FreePass =>
            /\ phase' = "First"
            /\ queue' = <<>>
            /\ (\A b \in BlockIds : atlases'[BlockAtlas[b]].present)
                   => rebuilt' \cup skipped' = BlockIds ]_vars

\* A pass went by with the lock held and an item already pushed to the
\* queue, and a block edited before it has kept its old mesh.
WitnessLockedPassWent ==
    /\ phase = "First"
    /\ frame >= 1
    /\ locked
    /\ queue # <<>>
    /\ rebuilt = {}
    /\ \E b \in BlockIds : blocks[b].version = 1 /\ ~blocks[b].mesh.built

(***************************************************************************)
(* The hand-over of the font system                                        *)
(***************************************************************************)
\* C26: the TextRenderer resource is inserted at most once, and only after
\* the background task has stored it in the cell and dropped its handle;
\* LoadCosmicFonts is removed in the step that inserts it; text_render runs
\* only while the TextRenderer exists; and the first run of
\* load_cosmic_fonts_system after the task has ended installs it.
OneShotHandOver ==
    /\ [](/\ inserts <= 1
          /\ polls <= 1
          /\ (polls = 1 /\ loadPhase # "Flush")
                 => (textRenderer /\ ~loadCosmicFonts))
    /\ [][ /\ inserts' > inserts =>
               /\ loaderState = "ended"
               /\ loadCosmicFonts
               /\ ~loadCosmicFonts'
               /\ textRenderer'
           /\ renders' > renders => textRenderer
           /\ (polls' > polls) =>
                  "insert_resource TextRenderer" \in
                      {commandQueue'[i] : i \in 1..Len(commandQueue')} ]_vars

\* The task ended during the second frame: two polls found nothing, the
\* third installed the TextRenderer and text_render has run once.
WitnessInstalledLate ==
    /\ loaderState = "ended"
    /\ textRenderer
    /\ inserts = 1
    /\ polls = 1
    /\ loadFrame = 3
    /\ renders = 1

(***************************************************************************)
(* The change-detection skip path                                          *)
(***************************************************************************)
\* The blocks text_query yields before block b.
RECURSIVE BlocksBefore(_, _)
BlocksBefore(order, b) ==
    IF order = <<>> \/ Head(order) = b THEN <<>>
    ELSE <<Head(order)>> \o BlocksBefore(Tail(order), b)

\* The height of the atlas image as the loop finds it when it comes to
\* block b, in a pass that drains nothing: the blocks before b may have
\* grown the image, and a missing image is replaced by an empty one.
RowsSeenBy(b) ==
    LET w == RenderLoop([atlases |-> atlases, images |-> images,
                         blocks |-> blocks, rebuilt |-> {}, skipped |-> {}],
                        BlocksBefore(QueryOrder, b), rendererChanged,
                        scale_factor)
        a == BlockAtlas[b]
    IN  IF ~w.atlases[a].hasImage \/ ~w.images[a].present
        THEN NewImage.rows
        ELSE w.images[a].rows

\* What the skip path does to block b: the quads stay, UV0 stays when the
\* image has the recorded dimension and is otherwise multiplied by
\* recorded / current, the current dimension being recorded; UV0 times the
\* current dimension is then the pixel rectangle again.
SkippedInPlace(b) ==
    LET old == blocks[b].atlas_dimension
        new == RowsSeenBy(b)
    IN  /\ b \in skipped'
        /\ blocks'[b].mesh.built = blocks[b].mesh.built
        /\ blocks'[b].mesh.quads = blocks[b].mesh.quads
        /\ IF new = old
           THEN /\ blocks'[b].mesh.uvDim = blocks[b].mesh.uvDim
                /\ blocks'[b].atlas_dimension = old
           ELSE /\ blocks'[b].mesh.uvDim * old = blocks[b].mesh.uvDim * new
                /\ blocks'[b].atlas_dimension = new
        /\ blocks[b].mesh.built => blocks'[b].mesh.uvDim = new

\* text_render takes the lock, installs no prepared atlas and comes to
\* block b, whose document, bounds, style and segments are unchanged.
SkipCase(b) ==
    /\ FreePass
    /\ phase' = "First"
    /\ queue = <<>>
    /\ ~blocks[b].changed
    /\ ~blocks[b].segChanged
    /\ b \in rebuilt' \cup skipped'

SharedSegmentsSurvive ==
    [][ \A t \in TextEntities :
            (text3dSegments[t] # None /\ text3dSegments'[t] = None) =>
                \A e \in to_be_dropped(text3dSegments[t][1]) :
                    /\ e \notin sharedSegments => e \notin alive'
                    /\ (e \in sharedSegments /\ e \in alive) => e \in alive'
      ]_vars

(***************************************************************************)
(* Prepared atlases                                                        *)
(***************************************************************************)
\* The last item the queue holds for atlas id a.
RECURSIVE LastItemFor(_, _)
LastItemFor(q, a) ==
    IF q[Len(q)].id = a THEN q[Len(q)]
    ELSE LastItemFor(SubSeq(q, 1, Len(q) - 1), a)

QueuedIds == {queue[i].id : i \in 1..Len(queue)}

\* C29: an item is pushed to the queue only while the lock is held; the
\* first pass that takes the lock afterwards empties the queue, leaves each
\* queued id with its prepared atlas (the later item of an id winning) and an
\* image, sends no block through the skip path and lays out again every
\* block whose atlas exists.
PreparedAtlasRedrawsAll ==
    [][ /\ Len(queue') > Len(queue) => locked
        /\ (FreePass /\ phase' = "First" /\ queue # <<>>) =>
            /\ queue' = <<>>
            /\ \A a \in QueuedIds :
                   /\ atlases'[a].present
                   /\ images'[a].present
                   /\ \A k \in DOMAIN LastItemFor(queue, a).atlas.glyphs :
                          /\ k \in DOMAIN atlases'[a].glyphs
                          /\ atlases'[a].glyphs[k] =
                                 LastItemFor(queue, a).atlas.glyphs[k]
            /\ skipped' = {}
            /\ \A b \in BlockIds :
                   atlases'[BlockAtlas[b]].present => b \in rebuilt' ]_vars

\* The ids of the items a task still has to prepare.
WorkIds == {task.work[i].id : i \in 1..Len(task.work)}

\* C30: no atlas or image removed by prepare_images is lost: what it
\* removes from the stores is in the workload of the task it makes, so
\* every atlas of the app is in the store, with the task or in the queue,
\* and the pass that drains the queue puts atlas and image back under
\* their ids.
RemovedAssetsComeBack ==
    /\ [](\A a \in AtlasIds :
              atlases[a].present \/ a \in WorkIds \/ a \in QueuedIds)
    /\ [][ /\ \A a \in AtlasIds :
                  (images[a].present /\ ~images'[a].present) =>
                      \E i \in 1..Len(task'.work) :
                          /\ task'.work[i].id = a
                          /\ task'.work[i].image = images[a]
           /\ (FreePass /\ phase' = "First") =>
                  \A a \in QueuedIds :
                      atlases'[a].present /\ images'[a].present ]_vars

(***************************************************************************)
(* The anchor of a block                                                   *)
(***************************************************************************)
\* The anchor point of the bounding box, center + anchor * dimension,
\* doubled.
TwiceAnchorPoint ==
    <<TwiceCenter[1] + anAnchor[1] * Dimension[1],
      TwiceCenter[2] + anAnchor[2] * Dimension[2]>>

\* C31: the anchor pass translates every vertex by anchor * dimension -
\* center of the box [min_x, max_x] x [-height, 0], and the anchor point of
\* the box, center + anchor * dimension, then lies at local (0, 0).
AnchorPointAtOrigin ==
    /\ [][ (anOffset = None /\ anOffset' # None) =>
               /\ 2 * anOffset'[1][1] = anAnchor[1] * Dimension[1] - TwiceCenter[1]
               /\ 2 * anOffset'[1][2] = anAnchor[2] * Dimension[2] - TwiceCenter[2]
               /\ \A i \in 1..Len(anPositions) :
                      /\ anPositions'[i][1] = anPositions[i][1] + anOffset'[1][1]
                      /\ anPositions'[i][2] = anPositions[i][2] + anOffset'[1][2] ]_vars
    /\ [](anOffset # None =>
              /\ TwiceAnchorPoint[1] + 2 * anOffset[1][1] = 0
              /\ TwiceAnchorPoint[2] + 2 * anOffset[1][2] = 0)

(***************************************************************************)
(* The layers of a finished block                                          *)
(***************************************************************************)
\* The layer tags present that are higher than tag l.
TagsAbove(l) == {lzLayers[q] : q \in 1..Len(lzLayers)} \cap {m \in LayerTags : m > l}

\* The quad whose vertices the k-th group of six indices names.
QuadOfGroup(k) == (lzIndices[6 * k - 5] \div 4) + 1

\* C32: after the drop of a block with a nonzero layer_offset, the quads of
\* one layer tag have one z, 0 for the highest tag present and lower by
\* exactly layer_offset for each next lower tag present; nothing but z is
\* changed; the indices come in groups of six in ascending order of layer
\* tag, each group naming the four vertices of its own quad.
LayersStacked ==
    (lzDropped /\ lzLayerOffset # 0 /\ lzLayers # <<>>) =>
        /\ Len(lzPositions) = 4 * Len(lzLayers)
        /\ \A i \in 1..Len(lzPositions) :
               LET q == ((i - 1) \div 4) + 1
               IN  /\ lzPositions[i].quad = q
                   /\ lzPositions[i].corner = ((i - 1) % 4) + 1
                   /\ lzPositions[i].z =
                          -lzLayerOffset * Cardinality(TagsAbove(lzLayers[q]))
        /\ Len(lzIndices) = 6 * Len(lzLayers)
        /\ {QuadOfGroup(k) : k \in 1..Len(lzLayers)} = 1..Len(lzLayers)
        /\ \A k \in 1..Len(lzLayers) :
               LET first == 4 * (QuadOfGroup(k) - 1)
               IN  /\ SubSeq(lzIndices, 6 * k - 5, 6 * k) =
                          <<first, first + 1, first + 2,
                            first + 1, first + 3, first + 2>>
                   /\ k > 1 => lzLayers[QuadOfGroup(k - 1)]
                                   <= lzLayers[QuadOfGroup(k)]

\* A block dropped with three quads of two layers, the first cached on the
\* higher one.
WitnessLayersReordered ==
    /\ lzDropped
    /\ lzLayerOffset # 0
    /\ Len(lzLayers) = 3
    /\ lzLayers[1] > lzLayers[2]
    /\ lzLayers[3] = lzLayers[2]

(***************************************************************************)
(* The atlas under boxes that fit its first image                          *)
(***************************************************************************)
\* C33: when every cached box is no larger than the first image of the
\* atlas, no call panics or writes outside the pixel buffer and every
\* rectangle handed out lies inside the image: one doubling of the height
\* per call is enough.
FittingBoxesStayInside ==
    /\ ~atlasPanic
    /\ \A k \in DOMAIN glyphs :
           /\ glyphs[k].max[1] <= imgW
           /\ glyphs[k].max[2] <= imgH

(***************************************************************************)
(* The packing of the atlas                                                *)
(***************************************************************************)
\* Rectangles a and b are in one row and PADDING apart horizontally, or in
\* two rows and PADDING apart vertically.
Apart(a, b) ==
    IF a.min[2] = b.min[2]
    THEN \/ a.max[1] + PADDING <= b.min[1]
         \/ b.max[1] + PADDING <= a.min[1]
    ELSE \/ a.max[2] + PADDING <= b.min[2]
         \/ b.max[2] + PADDING <= a.min[2]

\* C34: in every reachable state of the atlas the rectangles of two distinct
\* keys are disjoint, at least PADDING pixels apart horizontally within a
\* row and vertically between rows.
RectsApart ==
    \A a \in DOMAIN glyphs : \A b \in DOMAIN glyphs \ {a} :
        Apart(glyphs[a], glyphs[b])

\* Three rectangles, two of them in one row and one in the next row.
WitnessTwoRows ==
    \E a \in DOMAIN glyphs : \E b \in DOMAIN glyphs \ {a} :
    \E c \in DOMAIN glyphs \ {a, b} :
        /\ glyphs[a].min[2] = glyphs[b].min[2]
        /\ glyphs[c].min[2] > glyphs[a].min[2]
        /\ ~atlasPanic

(***************************************************************************)
(* The atlas after clear                                                   *)
(***************************************************************************)
\* C35: clear takes the packing state back to the one of a new atlas on an
\* image of the current dimensions: cursor at the origin, row descent 0 and
\* an empty glyph map, so that the calls after it pack as on a new atlas.
ClearRestoresPacking ==
    last.op = "clear" =>
        /\ pointer = <<0, 0>>
        /\ descent = 0
        /\ glyphs = <<>>

(***************************************************************************)
(* The atlas on an image without pixel data                                *)
(***************************************************************************)
\* C36: a cache call for a key that is not in the glyph map, on an image
\* that holds no pixel data, returns the empty rectangle, paints nothing,
\* adds no entry and leaves cursor and row descent as they were.
CacheWithoutDataIsNoOp ==
    [][(/\ ncalls' = ncalls + 1
        /\ last'.op = "cache"
        /\ last'.key \notin DOMAIN glyphs
        /\ ~imgHasData)
       => (/\ last'.ret = NoRect
           /\ npaints' = npaints
           /\ glyphs' = glyphs
           /\ pointer' = pointer
           /\ descent' = descent)]_vars

(***************************************************************************)
(* A block without its atlas                                               *)
(***************************************************************************)
\* The atlas store as the block loop of a pass finds it, the queue drained.
AtlasesAtLoop == Drained(queue, [atlases |-> atlases, images |-> images]).atlases

\* C37: a block whose atlas is missing is passed over on its own: in a pass
\* that holds the lock every block whose atlas is in the store is processed,
\* by the rebuild or by the skip path, wherever it stands in the query order.
MissingAtlasSkipsOneBlock ==
    [][(FreePass /\ phase' = "First") =>
           \A b \in BlockIds :
               AtlasesAtLoop[BlockAtlas[b]].present
                   => b \in rebuilt' \cup skipped']_vars

(***************************************************************************)
(* The scale factor of the glyphs in the store                             *)
(***************************************************************************)
\* C38: every glyph entry of an atlas in the store was rasterized at the
\* scale factor now in force: no atlas is installed whose entries were
\* rasterized at a scale factor older than its last change.
StoredGlyphsAtCurrentScale ==
    \A a \in AtlasIds :
        atlases[a].present =>
            \A k \in DOMAIN atlases[a].glyphs :
                atlases[a].glyphs[k].scale = scale_factor

(***************************************************************************)
(* The 16-bit indices of a rebuilt mesh                                    *)
(***************************************************************************)
\* C39: however many quads a rebuild emits, the six indices of quad number
\* q (from 0) are 4q + 0, 1, 2, 1, 3, 2, the four vertices of that quad:
\* the 16-bit arithmetic neither wraps around nor fails.
IndicesNameOwnQuad ==
    /\ ~ixPanic
    /\ ixIdx > 0 =>
           LET first == 4 * (ixIdx - 1)
           IN  ixIndices = <<first, first + 1, first + 2,
                             first + 1, first + 3, first + 2>>

====
